---- MODULE Spec2Model ----
(***************************************************************************)
(* Verification model of the BLS / population analytics pipeline.          *)
(*                                                                         *)
(* Numeric conventions                                                     *)
(*   - a labor-statistics `value` (a Python float) is held as an integer   *)
(*     number of 1e-5 units, so that round(x, 4) is a real operation;      *)
(*   - a population is an integer count;                                   *)
(*   - a pandas DataFrame is the sequence of its rows, in row order;       *)
(*   - Python's None is the record NoneVal, a nullable cell is a record    *)
(*     [null, v].                                                          *)
(***************************************************************************)
EXTENDS Integers, Sequences, FiniteSets, TLC

VARIABLES
    pc,               \* position of the invocation
    bls_df,           \* labor-statistics DataFrame of the invocation
    pop_df,           \* population DataFrame of the invocation
    pop_stats,        \* result of calculate_population_statistics
    best_years,       \* result of calculate_best_years
    combined_report,  \* result of generate_combined_report
    store,            \* the snapshot of the Raw Data Store the invocations read
    rng,              \* state of numpy's global random generator
    fault,            \* the step at which an unforeseen exception is raised
    run,              \* number of the current invocation on the snapshot
    now,              \* the clock read by datetime.now()
    log,              \* the lines logged by the current invocation
    result,           \* the record run_analytics returned last
    first_run,        \* reports and result of the previous invocation
    bls_reads,        \* get_object calls made by load_bls_data in the invocation
    pop_reads,        \* get_object calls made by load_population_data in it
    event,            \* the SQS event handed to the Aggregator's lambda_handler
    rec_i,            \* index of the SQS record being processed
    s3_i,             \* index of the S3 record being processed in its message
    analytics_calls,  \* the S3 records run_analytics was called for, in order
    processed_messages, \* the handler's count of the triggers it processed
    event_form,       \* whether the event is a mapping with a list of records
    api,              \* what the APIs and the bucket answer in a collection cycle
    series_i,         \* index of the series being collected
    bls_results,      \* the results list of collect_bls_data
    bucket,           \* the keys written to the bucket in the cycle, in order
    queue             \* the keys of the object-created notifications enqueued

runVars == <<store, rng, fault, run, now, log, result, first_run>>

handlerVars == <<event, rec_i, s3_i, analytics_calls, processed_messages, event_form>>

collectorVars == <<api, series_i, bls_results, bucket, queue>>

vars == <<pc, bls_df, pop_df, pop_stats, best_years, combined_report, runVars,
          bls_reads, pop_reads, handlerVars, collectorVars>>

-----------------------------------------------------------------------------
(* Values shared by the whole model *)

NoneVal == [is_none |-> TRUE]

IsNone(x) == x = NoneVal

Null == [null |-> TRUE, v |-> 0]

Cell(n) == [null |-> FALSE, v |-> n]

\* a result that has not been computed yet in this invocation
Pending == [pending |-> TRUE]

\* an empty DataFrame: no rows (and, in pandas, no columns)
EmptyFrame == << >>

\* Python orders the series ids as strings; SeriesOrder lists the ids the
\* model uses in that (lexicographic) order.
SeriesOrder ==
    << "CES0000000001", "LNS14000000", "PRS30006011", "PRS30006012", "PRS30006032" >>

SeriesRank(s) == CHOOSE i \in 1..Len(SeriesOrder) : SeriesOrder[i] = s

RECURSIVE SumRange(_, _, _)
SumRange(s, lo, hi) ==
    IF lo > hi THEN 0
    ELSE IF lo = hi THEN s[lo]
    ELSE LET mid == lo + ((hi - lo) \div 2)
         IN  SumRange(s, lo, mid) + SumRange(s, mid + 1, hi)

\* the sum of the elements of a sequence of integers
SeqSum(s) == SumRange(s, 1, Len(s))

RECURSIVE SortInts(_)
\* the elements of a finite set of integers in increasing order
SortInts(S) ==
    IF S = {} THEN << >>
    ELSE LET m == CHOOSE x \in S : \A y \in S : x <= y
         IN  << m >> \o SortInts(S \ {m})

\* all sequences over S of length at most n
SeqsUpTo(S, n) == UNION { [1..k -> S] : k \in 0..n }

-----------------------------------------------------------------------------
(* round(x, 4) on a value held in 1e-5 units: nearest multiple of 10,      *)
(* a tie going to the even fourth decimal.                                 *)

Round4(v) ==
    LET q == v \div 10
        r == v % 10
    IN  IF r < 5 THEN q * 10
        ELSE IF r > 5 THEN (q + 1) * 10
        ELSE IF q % 2 = 0 THEN q * 10 ELSE (q + 1) * 10

-----------------------------------------------------------------------------
(* calculate_best_years *)

\* the positions of the rows of one series
RowsOfSeries(df, s) == { i \in 1..Len(df) : df[i].series_id = s }

RECURSIVE SortSeries(_)
\* groupby sorts the group keys (sort=True is the pandas default): the
\* series ids as strings,
SortSeries(S) ==
    IF S = {} THEN << >>
    ELSE LET m == CHOOSE x \in S : \A y \in S \ {x} : SeriesRank(x) < SeriesRank(y)
         IN  << m >> \o SortSeries(S \ {m})

\* and within a series the years, increasing
GroupYears(df, rows) == SortInts({ df[i].year : i \in rows })

GroupSumLast(df, group) ==
    df[CHOOSE i \in group : \A j \in group : j <= i].value

\* ['value'].sum() of one group, the rows taken in frame order
GroupSum(df, group) ==
    LET order == SortInts(group)
    IN  SeqSum([ n \in 1..Len(order) |-> df[order[n]].value ])

\* the rows of yearly_totals for one series
SeriesTotals(df, s) ==
    LET rows  == RowsOfSeries(df, s)
        years == GroupYears(df, rows)
    IN  [ n \in 1..Len(years) |->
            [ series_id   |-> s,
              year        |-> years[n],
              total_value |-> GroupSum(df, { i \in rows : df[i].year = years[n] }) ] ]

RECURSIVE ConcatTotals(_, _)
ConcatTotals(df, series) ==
    IF series = << >> THEN << >>
    ELSE SeriesTotals(df, Head(series)) \o ConcatTotals(df, Tail(series))

\* bls_df.groupby(['series_id', 'year'])['value'].sum().reset_index()
yearly_totals(df) ==
    ConcatTotals(df, SortSeries({ df[i].series_id : i \in 1..Len(df) }))

idxmax_last(yt, s) ==
    LET idx == { i \in 1..Len(yt) : yt[i].series_id = s }
        top == { i \in idx : \A j \in idx : yt[j].total_value <= yt[i].total_value }
    IN  CHOOSE i \in top : \A j \in top : j <= i

\* groupby('series_id')['total_value'].idxmax(): the row label of the first
\* occurrence of the maximum within the series' group
idxmax(yt, s) ==
    LET idx == { i \in 1..Len(yt) : yt[i].series_id = s }
        top == { i \in idx : \A j \in idx : yt[j].total_value <= yt[i].total_value }
    IN  CHOOSE i \in top : \A j \in top : i <= j

calculate_best_years(df) ==
    IF df = EmptyFrame THEN << >>
    ELSE
      LET yt     == yearly_totals(df)
          series == SortSeries({ yt[i].series_id : i \in 1..Len(yt) })
      IN  [ n \in 1..Len(series) |->
              LET row == yt[idxmax(yt, series[n])]
              IN  [ series_id |-> row.series_id,
                    best_year |-> row.year,
                    max_value |-> Round4(row.total_value) ] ]

-----------------------------------------------------------------------------
(* Exact arithmetic on non-negative integers wider than the machine word:  *)
(* a number is the sequence of its base-10000 digits, least significant    *)
(* first.  Used for the squared deviations of the standard deviation.      *)

RECURSIVE Carry(_, _)
Carry(s, c) ==
    IF s = << >>
      THEN IF c = 0 THEN << >> ELSE << c % 10000 >> \o Carry(<< >>, c \div 10000)
      ELSE LET t == Head(s) + c
           IN  << t % 10000 >> \o Carry(Tail(s), t \div 10000)

Big(n) == Carry(<< n >>, 0)

Limb(a, i) == IF i >= 1 /\ i <= Len(a) THEN a[i] ELSE 0

MaxOf(a, b) == IF a >= b THEN a ELSE b

BigAdd(a, b) ==
    Carry([ i \in 1..MaxOf(Len(a), Len(b)) |-> Limb(a, i) + Limb(b, i) ], 0)

BigMul(a, b) ==
    IF a = << >> \/ b = << >> THEN << >>
    ELSE Carry([ k \in 1..(Len(a) + Len(b) - 1) |->
                   SeqSum([ i \in 1..Len(a) |-> a[i] * Limb(b, k + 1 - i) ]) ], 0)

RECURSIVE BigCmpFrom(_, _, _)
BigCmpFrom(a, b, i) ==
    IF i = 0 THEN 0
    ELSE IF Limb(a, i) < Limb(b, i) THEN -1
    ELSE IF Limb(a, i) > Limb(b, i) THEN 1
    ELSE BigCmpFrom(a, b, i - 1)

BigLeq(a, b) == BigCmpFrom(a, b, MaxOf(Len(a), Len(b))) <= 0

RECURSIVE BigSum(_)
BigSum(s) == IF s = << >> THEN << >> ELSE BigAdd(Head(s), BigSum(Tail(s)))

Abs(x) == IF x < 0 THEN -x ELSE x

-----------------------------------------------------------------------------
(* calculate_population_statistics *)

\* round(a / n, 0) for an integer sum a over n > 0 values: nearest integer,
\* a tie going to the even one (numpy's rint)
RoundDiv(a, n) ==
    LET q == a \div n
        r == a % n
    IN  IF 2 * r < n THEN q
        ELSE IF 2 * r > n THEN q + 1
        ELSE IF q % 2 = 0 THEN q ELSE q + 1

\* sum over i of (n * x_i - sum(x))^2, as a wide number; the values are
\* taken relative to the first one, which leaves the deviations unchanged
SumSqDev(vals) ==
    LET n   == Len(vals)
        rel == [ i \in 1..n |-> vals[i] - vals[1] ]
        t   == SeqSum(rel)
    IN  BigSum([ i \in 1..n |->
                   LET d == Big(Abs(n * rel[i] - t)) IN BigMul(d, d) ])

RECURSIVE BigDivFrom(_, _, _, _)
\* the digits, most significant first, of the quotient of the digits
\* a[1..i] by the small divisor d, given the remainder carried in
BigDivFrom(a, d, i, rem) ==
    IF i = 0 THEN << >>
    ELSE LET cur == rem * 10000 + a[i]
         IN  << cur \div d >> \o BigDivFrom(a, d, i - 1, cur % d)

\* floor(a / d) for a wide a and a small d > 0
BigDivSmall(a, d) ==
    LET q == BigDivFrom(a, d, Len(a), 0)
    IN  [ i \in 1..Len(q) |-> q[Len(q) + 1 - i] ]

\* m * m as a wide number, for 0 <= m < 2^28
BigSquare(m) ==
    LET hi == m \div 10000
        lo == m % 10000
    IN  Carry(<< lo * lo, 2 * hi * lo, hi * hi >>, 0)

RECURSIVE StdSearch(_, _, _)
\* the largest r in lo..hi-1 with r = 0 or (2r-1)^2 <= q: the integer
\* nearest to sqrt(q) / 2
StdSearch(q, lo, hi) ==
    IF hi - lo <= 1 THEN lo
    ELSE LET mid == lo + ((hi - lo) \div 2)
         IN  IF BigLeq(BigSquare(2 * mid - 1), q)
               THEN StdSearch(q, mid, hi)
               ELSE StdSearch(q, lo, mid)

RECURSIVE MaxAbs(_)
MaxAbs(s) == IF s = << >> THEN 0 ELSE MaxOf(Abs(Head(s)), MaxAbs(Tail(s)))

\* round(sqrt(sum of squared deviations / (n - ddof)), 0); NaN when
\* n - ddof is not positive (pandas divides by it)
StdWithDdof(vals, ddof) ==
    LET n == Len(vals)
    IN  IF n - ddof <= 0 THEN Null
        ELSE LET spread == MaxAbs([ i \in 1..n |-> vals[i] - vals[1] ])
                 q == BigDivSmall(BigMul(Big(4), SumSqDev(vals)), n * n * (n - ddof))
             IN  Cell(StdSearch(q, 0, 2 * spread + 2))

StdPopulation(vals) == StdWithDdof(vals, 0)

\* Series.std(): the sample standard deviation (ddof = 1), NaN when fewer
\* than two values are left; then round(std, 0)
Std(vals) == StdWithDdof(vals, 1)

MeanTruncated(vals) ==
    IF vals = << >> THEN Null ELSE Cell(SeqSum(vals) \div Len(vals))

\* Series.mean() then round(mean, 0); NaN when no value is left
Mean(vals) ==
    IF vals = << >> THEN Null ELSE Cell(RoundDiv(SeqSum(vals), Len(vals)))

YearInRangeWide(row) ==
    /\ ~row.year.null
    /\ row.year.v >= 2013
    /\ row.year.v <= 2019

\* (pop_df['year'] >= 2013) & (pop_df['year'] <= 2018); a NaN year compares
\* False
YearInRange(row) ==
    /\ ~row.year.null
    /\ row.year.v >= 2013
    /\ row.year.v <= 2018

FilterRange(rows) == SelectSeq(rows, YearInRange)

IsNumber(cell) == ~cell.null

\* the values of a column without its NaN cells (skipna)
NonNull(cells) ==
    LET kept == SelectSeq(cells, IsNumber)
    IN  [ i \in 1..Len(kept) |-> kept[i].v ]

RECURSIVE InsertSorted(_, _)
InsertSorted(x, s) ==
    IF s = << >> THEN << x >>
    ELSE IF x <= Head(s) THEN << x >> \o s
         ELSE << Head(s) >> \o InsertSorted(x, Tail(s))

RECURSIVE Sorted(_)
\* sorted(list) on integers
Sorted(s) == IF s = << >> THEN << >> ELSE InsertSorted(Head(s), Sorted(Tail(s)))

\* the body of calculate_population_statistics raises (KeyError) when the
\* frame has no 'year' column, or rows are left and it has no 'Population'
PopStatsRaises(df) ==
    \/ "year" \notin df.cols
    \/ /\ FilterRange(df.rows) # << >>
       /\ "Population" \notin df.cols

calculate_population_statistics(df) ==
    IF PopStatsRaises(df) THEN NoneVal
    ELSE
      LET filtered_df == FilterRange(df.rows)
          populations == NonNull([ i \in 1..Len(filtered_df) |-> filtered_df[i].Population ])
      IN  IF Len(filtered_df) = 0 THEN NoneVal
          ELSE [ mean_population |-> Mean(populations),
                 std_deviation   |-> Std(populations),
                 years_included  |-> Sorted([ i \in 1..Len(filtered_df) |->
                                               filtered_df[i].year.v ]),
                 data_points     |-> Len(filtered_df) ]

PopRow(y, p) == [ year |-> Cell(y), Population |-> Cell(p) ]

\* pd.DataFrame(list of records); a frame built from no record has no column
PopFrame(rows) ==
    [ cols |-> IF rows = << >> THEN {} ELSE { "year", "Population" }, rows |-> rows ]

create_sample_population_data ==
    PopFrame(<< PopRow(2013, 316128839), PopRow(2014, 318857056),
                PopRow(2015, 321418821), PopRow(2016, 323127515),
                PopRow(2017, 325719178), PopRow(2018, 327167439),
                PopRow(2019, 328239523), PopRow(2021, 331893745),
                PopRow(2022, 333287562), PopRow(2023, 334914896) >>)

-----------------------------------------------------------------------------
(* generate_combined_report *)

target_series == "PRS30006032"

target_period == "Q01"

MatchesSelectorSeriesOnly(row) == row.series_id = target_series

\* (bls_df['series_id'] == target_series) & (bls_df['period'] == target_period)
MatchesSelector(row) ==
    row.series_id = target_series /\ row.period = target_period

FilterSelector(df) == SelectSeq(df, MatchesSelector)

JoinKeyAny(left, right) == TRUE

\* on='year': a right row joins a left row when the years are equal; a NaN
\* year on the right equals no year
JoinKey(left, right) == ~right.year.null /\ right.year.v = left.year

RECURSIVE RightMatches(_, _)
\* the joined rows of one left row, in the order of the right frame
RightMatches(left, rights) ==
    IF rights = << >> THEN << >>
    ELSE IF JoinKey(left, Head(rights))
           THEN << [ series_id |-> left.series_id, year |-> left.year,
                     period |-> left.period, value |-> left.value,
                     Population |-> Head(rights).Population ] >>
                \o RightMatches(left, Tail(rights))
           ELSE RightMatches(left, Tail(rights))

RECURSIVE MergeLeft(_, _)
\* pd.merge(left, right, on='year', how='left'): every left row is kept, in
\* the order of the left frame, once per matching right row, and once with a
\* NaN Population when no right row matches
MergeLeft(lefts, rights) ==
    IF lefts = << >> THEN << >>
    ELSE LET m == RightMatches(Head(lefts), rights)
         IN  (IF m = << >>
                THEN << [ series_id |-> Head(lefts).series_id, year |-> Head(lefts).year,
                          period |-> Head(lefts).period, value |-> Head(lefts).value,
                          Population |-> Null ] >>
                ELSE m)
             \o MergeLeft(Tail(lefts), rights)

KeepRowOrder(s) == s

RECURSIVE InsertByYear(_, _)
InsertByYear(x, s) ==
    IF s = << >> THEN << x >>
    ELSE IF x.year <= Head(s).year THEN << x >> \o s
         ELSE << Head(s) >> \o InsertByYear(x, Tail(s))

RECURSIVE SortByYear(_)
\* .sort_values('year'): ascending; rows of one year keep their order (the
\* frames of the model are below the size at which numpy's sort stops being
\* an insertion sort)
SortByYear(s) ==
    IF s = << >> THEN << >> ELSE InsertByYear(Head(s), SortByYear(Tail(s)))

\* the body of generate_combined_report raises (KeyError) when the labor
\* frame has no column (no row), or rows match the selector and the
\* population frame lacks 'year' or 'Population'
CombinedRaises(bdf, pdf) ==
    \/ bdf = EmptyFrame
    \/ /\ FilterSelector(bdf) # << >>
       /\ ~({ "year", "Population" } \subseteq pdf.cols)

generate_combined_report(bdf, pdf) ==
    IF CombinedRaises(bdf, pdf) THEN NoneVal
    ELSE
      LET bls_filtered == FilterSelector(bdf)
      IN  IF bls_filtered = << >> THEN NoneVal
          ELSE
            LET combined == SortByYear(MergeLeft(bls_filtered, pdf.rows))
                report_records ==
                  [ i \in 1..Len(combined) |->
                      [ series_id  |-> combined[i].series_id,
                        year       |-> combined[i].year,
                        period     |-> combined[i].period,
                        value      |-> Cell(Round4(combined[i].value)),
                        population |-> combined[i].Population ] ]
            IN  [ target_series |-> target_series,
                  target_period |-> target_period,
                  records       |-> report_records,
                  total_records |-> Len(report_records) ]

-----------------------------------------------------------------------------
(* The Raw Data Store as the loaders see it                                *)
(*                                                                         *)
(* store.bls: the answer to list_objects_v2(Prefix='bls-data/',            *)
(*   Delimiter='/'): ok is FALSE when the call raises; prefixes are the    *)
(*   CommonPrefixes in key order, each with today's object of the series.  *)
(* store.pop: the answer to list_objects_v2(Prefix=                        *)
(*   'datausa-api/population/', Delimiter='/'): objects are the keys under *)
(*   the namespace in key order; direct tells whether the key has no '/'   *)
(*   after the prefix (only such keys are listed in Contents), json        *)
(*   whether it ends in '.json'.                                           *)
(* A JSON field is a record [k, v]: k is "num" for a number or a numeric   *)
(* string, "str" for a string, "absent" when the key is missing and "bad"  *)
(* for a string that is no number (the "-" of a missing BLS value).        *)

Num(n) == [ k |-> "num", v |-> n ]

Str(t) == [ k |-> "str", v |-> t ]

Absent == [ k |-> "absent", v |-> 0 ]

Bad == [ k |-> "bad", v |-> 0 ]

\* int(data_point.get('year', 0)) and float(value) raise ValueError on a
\* string that is no number
ConvRaises(f) == f.k = "bad"

\* int(data_point.get('year', 0))
YearOf(f) == IF f.k = "num" THEN f.v ELSE 0

\* data_point.get('period', '')
PeriodOf(f) == IF f.k = "str" THEN f.v ELSE ""

\* float(data_point.get('value', 0)) if data_point.get('value') else 0
ValueOf(f) == IF f.k = "num" THEN f.v ELSE 0

PointRaises(pt) == ConvRaises(pt.year) \/ ConvRaises(pt.value)

RECURSIVE ExtractPoints(_, _)
\* the rows appended for the data points of one object, up to the first
\* point whose conversion raises: [rows, raised]
ExtractPoints(series_id, points) ==
    IF points = << >> THEN [ rows |-> << >>, raised |-> FALSE ]
    ELSE IF PointRaises(Head(points)) THEN [ rows |-> << >>, raised |-> TRUE ]
    ELSE LET rest == ExtractPoints(series_id, Tail(points))
         IN  [ rows   |-> << [ series_id |-> series_id,
                               year      |-> YearOf(Head(points).year),
                               period    |-> PeriodOf(Head(points).period),
                               value     |-> ValueOf(Head(points).value) ] >>
                          \o rest.rows,
               raised |-> rest.raised ]

\* what reading one series' object of today does: get_object raises for a
\* missing key, json.loads for a garbled body; the data points are looked
\* for under data['data']['Results'], which a "wrapped" object has and the
\* bare API response ("raw") has not
ReadSeries(p) ==
    CASE p.object.kind \in { "missing", "garbled" } -> [ rows |-> << >>, raised |-> TRUE ]
      [] p.object.kind = "raw" -> [ rows |-> << >>, raised |-> FALSE ]
      [] p.object.kind = "wrapped" -> ExtractPoints(p.series_id, p.object.points)

SeriesCap == 10

RECURSIVE ScanSeriesRetrying(_, _, _)
\* the loop over CommonPrefixes with a second get_object for an object
\* whose read raised
ScanSeriesRetrying(prefixes, series_count, reads) ==
    IF prefixes = << >>
      THEN [ rows |-> << >>, series_count |-> series_count, reads |-> reads ]
    ELSE
      LET r == ReadSeries(Head(prefixes))
      IN  IF ~r.raised /\ series_count + 1 >= SeriesCap
            THEN [ rows |-> r.rows, series_count |-> series_count + 1,
                   reads |-> reads + 1 ]
            ELSE LET rest == ScanSeriesRetrying(Tail(prefixes),
                                                IF r.raised THEN series_count
                                                ELSE series_count + 1,
                                                IF r.raised THEN reads + 2
                                                ELSE reads + 1)
                 IN  [ rows |-> r.rows \o rest.rows,
                       series_count |-> rest.series_count,
                       reads |-> rest.reads ]

RECURSIVE ScanSeries(_, _, _)
\* the loop over CommonPrefixes: a series that raises is skipped with the
\* rows it had appended so far, one that does not is counted, and the loop
\* stops when the count reaches the cap
ScanSeries(prefixes, series_count, reads) ==
    IF prefixes = << >>
      THEN [ rows |-> << >>, series_count |-> series_count, reads |-> reads ]
    ELSE
      LET r == ReadSeries(Head(prefixes))
      IN  IF ~r.raised /\ series_count + 1 >= SeriesCap
            THEN [ rows |-> r.rows, series_count |-> series_count + 1,
                   reads |-> reads + 1 ]
            ELSE LET rest == ScanSeries(Tail(prefixes),
                                        IF r.raised THEN series_count
                                        ELSE series_count + 1,
                                        reads + 1)
                 IN  [ rows |-> r.rows \o rest.rows,
                       series_count |-> rest.series_count,
                       reads |-> rest.reads ]

RngPeriod == 1000

\* np.random.uniform(1.0, 3.0) drawn in generator state g: a value in
\* [1.0, 3.0) fixed by the state
Uniform(g) == 100000 + (((g % RngPeriod) * 7919) % 200000)

series_list ==
    << "PRS30006032", "PRS30006011", "PRS30006012", "LNS14000000", "CES0000000001" >>

quarters == << "Q01", "Q02", "Q03", "Q04" >>

FirstSampleYear == 2013

LastSampleYear == 2023

SampleSize == Len(series_list) * (LastSampleYear - FirstSampleYear + 1) * Len(quarters)

create_sample_bls_data_fixed(g) ==
    LET ny == LastSampleYear - FirstSampleYear + 1
        nq == Len(quarters)
    IN  [ i \in 1..SampleSize |->
            [ series_id |-> series_list[((i - 1) \div (ny * nq)) + 1],
              year      |-> FirstSampleYear + (((i - 1) \div nq) % ny),
              period    |-> quarters[((i - 1) % nq) + 1],
              value     |-> 200000 ] ]

\* one row per series, year and quarter, in the order of the nested loops,
\* each with a value drawn from the global generator
create_sample_bls_data(g) ==
    LET ny == LastSampleYear - FirstSampleYear + 1
        nq == Len(quarters)
    IN  [ i \in 1..SampleSize |->
            [ series_id |-> series_list[((i - 1) \div (ny * nq)) + 1],
              year      |-> FirstSampleYear + (((i - 1) \div nq) % ny),
              period    |-> quarters[((i - 1) % nq) + 1],
              value     |-> Uniform(g + i - 1) ] ]

\* the body of load_bls_data inside its try: raises when the listing does
load_bls_body(st, g) ==
    IF ~st.bls.ok THEN [ raised |-> TRUE ]
    ELSE LET scan == ScanSeries(st.bls.prefixes, 0, 0)
         IN  IF scan.rows = << >>
               THEN [ raised |-> FALSE, df |-> create_sample_bls_data(g),
                      fallback |-> TRUE, reads |-> scan.reads ]
               ELSE [ raised |-> FALSE, df |-> scan.rows,
                      fallback |-> FALSE, reads |-> scan.reads ]

load_bls_data_unguarded(st, g) ==
    LET body == load_bls_body(st, g)
    IN  IF body.raised
          THEN [ raised |-> TRUE, df |-> EmptyFrame, fallback |-> FALSE, reads |-> 0 ]
          ELSE body

\* load_bls_data: whatever its body raises is caught and answered with the
\* sample data
load_bls_data(st, g) ==
    LET body == load_bls_body(st, g)
    IN  IF body.raised
          THEN [ raised |-> FALSE, df |-> create_sample_bls_data(g),
                 fallback |-> TRUE, reads |-> 0 ]
          ELSE body

\* pd.to_numeric of a column raises on a string that is no number
ColumnRaises(records, col) ==
    \E i \in 1..Len(records) : records[i][col].k = "bad"

HasColumn(records, col) ==
    \E i \in 1..Len(records) : records[i][col].k # "absent"

NumCell(f) == IF f.k = "num" THEN Cell(f.v) ELSE Null

\* pd.DataFrame(data['data']) with df['year'] = pd.to_numeric(df['Year'])
\* and df['Population'] = pd.to_numeric(df['Population']): a column exists
\* when some record has the key, and is NaN where a record lacks it
FrameOfRecords(records) ==
    [ cols |-> (IF HasColumn(records, "Year") THEN { "year" } ELSE {})
               \cup (IF HasColumn(records, "Population") THEN { "Population" } ELSE {}),
      rows |-> [ i \in 1..Len(records) |->
                   [ year       |-> NumCell(records[i].Year),
                     Population |-> NumCell(records[i].Population) ] ] ]

ListedJson(objects) ==
    { i \in 1..Len(objects) : objects[i].direct /\ objects[i].json }

\* the get_object calls of load_population_data: one, for latest_file, when
\* the listing answered and holds a key ending in '.json'
population_reads(st) ==
    IF st.pop.ok /\ ListedJson(st.pop.objects) # {} THEN 1 ELSE 0

\* the body of load_population_data inside its try
load_population_body(st) ==
    IF ~st.pop.ok THEN [ raised |-> TRUE ]
    ELSE
      LET listed == ListedJson(st.pop.objects)
      IN  IF listed = {}
            THEN [ raised |-> FALSE, df |-> create_sample_population_data,
                   fallback |-> TRUE ]
          ELSE
            \* the first key of Contents that ends in '.json'
            LET latest_file == st.pop.objects[CHOOSE i \in listed : \A j \in listed : i <= j]
                body == latest_file.body
            IN  CASE body.kind \in { "unreadable", "garbled" } -> [ raised |-> TRUE ]
                  [] body.kind = "nodata" ->
                       [ raised |-> FALSE, df |-> create_sample_population_data,
                         fallback |-> TRUE ]
                  [] body.kind = "data" ->
                       IF \/ ColumnRaises(body.records, "Year")
                          \/ ColumnRaises(body.records, "Population")
                         THEN [ raised |-> TRUE ]
                         ELSE [ raised |-> FALSE, df |-> FrameOfRecords(body.records),
                                fallback |-> FALSE ]

load_population_data_unguarded(st) ==
    LET body == load_population_body(st)
    IN  IF body.raised
          THEN [ raised |-> TRUE, df |-> PopFrame(<< >>), fallback |-> FALSE ]
          ELSE body

\* load_population_data: whatever its body raises is caught and answered
\* with the sample data
load_population_data(st) ==
    LET body == load_population_body(st)
    IN  IF body.raised
          THEN [ raised |-> FALSE, df |-> create_sample_population_data,
                 fallback |-> TRUE ]
          ELSE body

-----------------------------------------------------------------------------
(* log_analytics_results: the lines it logs, one record per line *)

BestYearsPreview == 5

RecordsPreview == 3

MinOf(a, b) == IF a <= b THEN a ELSE b

PopulationLines(stats) ==
    IF IsNone(stats) THEN << >>
    ELSE << [ line |-> "population_header" ],
            [ line |-> "mean_population", v |-> stats.mean_population ],
            [ line |-> "std_deviation", v |-> stats.std_deviation ],
            [ line |-> "years", v |-> stats.years_included ],
            [ line |-> "data_points", v |-> stats.data_points ] >>

\* the best-year lines without the line telling how many were left out
BestYearsLinesSilent(by) ==
    IF by = << >> THEN << >>
    ELSE << [ line |-> "best_years_header" ],
            [ line |-> "series_analyzed", v |-> Len(by) ] >>
         \o [ i \in 1..MinOf(Len(by), BestYearsPreview) |->
                [ line |-> "best_year", v |-> by[i] ] ]

BestYearsLines(by) ==
    IF by = << >> THEN << >>
    ELSE << [ line |-> "best_years_header" ],
            [ line |-> "series_analyzed", v |-> Len(by) ] >>
         \o [ i \in 1..MinOf(Len(by), BestYearsPreview) |->
                [ line |-> "best_year", v |-> by[i] ] ]
         \o (IF Len(by) > BestYearsPreview
               THEN << [ line |-> "more_series", v |-> Len(by) - BestYearsPreview ] >>
               ELSE << >>)

CombinedLines(report) ==
    IF IsNone(report) THEN << >>
    ELSE << [ line |-> "combined_header" ],
            [ line |-> "total_records", v |-> report.total_records ] >>
         \o [ i \in 1..MinOf(Len(report.records), RecordsPreview) |->
                [ line |-> "record", v |-> report.records[i] ] ]
         \o (IF Len(report.records) > RecordsPreview
               THEN << [ line |-> "more_records",
                         v |-> Len(report.records) - RecordsPreview ] >>
               ELSE << >>)

log_analytics_results(stats, by, report) ==
    << [ line |-> "summary_start" ] >>
    \o PopulationLines(stats) \o BestYearsLines(by) \o CombinedLines(report)
    \o << [ line |-> "summary_end" ] >>

-----------------------------------------------------------------------------
(* The three report functions as run_analytics calls them: each catches    *)
(* whatever its body raises, logs an error line and returns its "no        *)
(* result" value.  injected tells that an unforeseen exception is raised   *)
(* in the body.                                                            *)

try_population_statistics_unguarded(df, injected) ==
    IF injected \/ PopStatsRaises(df)
      THEN [ raised |-> TRUE, value |-> NoneVal, error |-> FALSE ]
      ELSE [ raised |-> FALSE, value |-> calculate_population_statistics(df),
             error |-> FALSE ]

try_population_statistics(df, injected) ==
    IF injected \/ PopStatsRaises(df)
      THEN [ raised |-> FALSE, value |-> NoneVal, error |-> TRUE ]
      ELSE [ raised |-> FALSE, value |-> calculate_population_statistics(df),
             error |-> FALSE ]

try_best_years(df, injected) ==
    IF injected
      THEN [ raised |-> FALSE, value |-> << >>, error |-> TRUE ]
      ELSE [ raised |-> FALSE, value |-> calculate_best_years(df), error |-> FALSE ]

try_combined_report_escalating(bdf, pdf, injected) ==
    IF injected \/ CombinedRaises(bdf, pdf)
      THEN [ raised |-> FALSE, value |-> NoneVal, error |-> TRUE ]
      ELSE [ raised |-> IsNone(generate_combined_report(bdf, pdf)),
             value |-> generate_combined_report(bdf, pdf), error |-> FALSE ]

try_combined_report(bdf, pdf, injected) ==
    IF injected \/ CombinedRaises(bdf, pdf)
      THEN [ raised |-> FALSE, value |-> NoneVal, error |-> TRUE ]
      ELSE [ raised |-> FALSE, value |-> generate_combined_report(bdf, pdf),
             error |-> FALSE ]

success_result_with_reports(stats, by, report, t) ==
    [ success |-> TRUE,
      timestamp |-> t,
      population_statistics |-> stats,
      best_years_analysis |-> by,
      combined_report |-> report ]

\* the record run_analytics returns when nothing reached its own handler
success_result(stats, by, report, t) ==
    [ success |-> TRUE,
      timestamp |-> t,
      analytics_summary |->
        [ population_stats_calculated |-> ~IsNone(stats),
          best_years_analyzed |-> Len(by),
          combined_report_generated |-> ~IsNone(report) ] ]

\* the record run_analytics returns from its own handler
failure_result(e, t) ==
    [ success |-> FALSE, error |-> e, timestamp |-> t ]

-----------------------------------------------------------------------------
(* The run-level variables when a report function is checked on its own *)

EmptyStore ==
    [ bls |-> [ ok |-> TRUE, prefixes |-> << >> ],
      pop |-> [ ok |-> TRUE, objects |-> << >> ] ]

\* the Aggregator's handler and the Collector at rest
IdleHandler ==
    /\ event = << >>
    /\ rec_i = 0
    /\ s3_i = 0
    /\ analytics_calls = << >>
    /\ processed_messages = 0
    /\ event_form = "mapping"

IdleCollector ==
    /\ api = << >>
    /\ series_i = 0
    /\ bls_results = << >>
    /\ bucket = << >>
    /\ queue = << >>

IdleRun ==
    /\ store = EmptyStore
    /\ rng = 0
    /\ fault = "none"
    /\ run = 1
    /\ now = 0
    /\ log = << >>
    /\ result = Pending
    /\ first_run = Pending

-----------------------------------------------------------------------------
(* Inputs of the best-year analysis *)

MaxBlsRows == 3

BestSeries == { "PRS30006032", "LNS14000000" }
BestYears == { 2020, 2021 }
BestPeriods == { "Q01", "Q02" }
\* -0.50003, 1.5 and 2.0
BestValues == { -50003, 150000, 200000 }

BlsRows(S, Y, P, V) ==
    [ series_id : S, year : Y, period : P, value : V ]

-----------------------------------------------------------------------------
(* Specification of the best-year analysis on its own *)

InitBest ==
    /\ pc = "best_years"
    /\ bls_df \in SeqsUpTo(BlsRows(BestSeries, BestYears, BestPeriods, BestValues), MaxBlsRows)
    /\ pop_df = EmptyFrame
    /\ pop_stats = Pending
    /\ best_years = Pending
    /\ combined_report = Pending
    /\ IdleRun
    /\ bls_reads = 0
    /\ pop_reads = 0
    /\ IdleHandler
    /\ IdleCollector

BestYearsStep ==
    /\ pc = "best_years"
    /\ best_years' = calculate_best_years(bls_df)
    /\ pc' = "done"
    /\ UNCHANGED <<bls_df, pop_df, pop_stats, combined_report, runVars,
                   bls_reads, pop_reads, handlerVars, collectorVars>>

NextBest == BestYearsStep

SpecBest == InitBest /\ [][NextBest]_vars

-----------------------------------------------------------------------------
(* Specification of the population statistics on their own *)

MaxPopRows == 3

\* years on both sides of each end of the 2013..2018 range
StatYears == { 2012, 2013, 2018, 2019 }

StatPopulations == { 316128839, 316128840, 318857056 }

PopRows(Y, P) == { PopRow(y, p) : y \in Y, p \in P }

\* population data {2013: 316128839, ..., 2018: 327167439}
PopScenario ==
    PopFrame(SubSeq(create_sample_population_data.rows, 1, 6))

InitPop ==
    /\ pc = "pop_stats"
    /\ bls_df = EmptyFrame
    /\ pop_df \in { PopFrame(r) : r \in SeqsUpTo(PopRows(StatYears, StatPopulations), MaxPopRows) }
                   \cup { PopScenario, create_sample_population_data }
    /\ pop_stats = Pending
    /\ best_years = Pending
    /\ combined_report = Pending
    /\ IdleRun
    /\ bls_reads = 0
    /\ pop_reads = 0
    /\ IdleHandler
    /\ IdleCollector

PopStatsStep ==
    /\ pc = "pop_stats"
    /\ pop_stats' = calculate_population_statistics(pop_df)
    /\ pc' = "done"
    /\ UNCHANGED <<bls_df, pop_df, best_years, combined_report, runVars,
                   bls_reads, pop_reads, handlerVars, collectorVars>>

NextPop == PopStatsStep

SpecPop == InitPop /\ [][NextPop]_vars

-----------------------------------------------------------------------------
(* Specification of the combined report on its own *)

MaxCombBls == 2

MaxCombPop == 2

CombSeries == { "PRS30006032", "LNS14000000" }
CombYears == { 2013, 2014 }
CombPeriods == { "Q01", "Q02" }
CombValues == { 150000, 50003 }
CombPopYears == { 2013, 2015 }
CombPopulations == { 316128839, 318857056 }

InitComb ==
    /\ pc = "combined"
    /\ bls_df \in SeqsUpTo(BlsRows(CombSeries, CombYears, CombPeriods, CombValues), MaxCombBls)
    /\ pop_df \in { PopFrame(r) : r \in SeqsUpTo(PopRows(CombPopYears, CombPopulations), MaxCombPop) }
    /\ pop_stats = Pending
    /\ best_years = Pending
    /\ combined_report = Pending
    /\ IdleRun
    /\ bls_reads = 0
    /\ pop_reads = 0
    /\ IdleHandler
    /\ IdleCollector

CombinedStep ==
    /\ pc = "combined"
    /\ combined_report' = generate_combined_report(bls_df, pop_df)
    /\ pc' = "done"
    /\ UNCHANGED <<bls_df, pop_df, pop_stats, best_years, runVars,
                   bls_reads, pop_reads, handlerVars, collectorVars>>

NextComb == CombinedStep

SpecComb == InitComb /\ [][NextComb]_vars

-----------------------------------------------------------------------------
(* Specification of the two labor-statistics reports, either one applied   *)
(* to a labor collection that may be empty                                 *)

InitReports ==
    /\ pc \in { "best_years", "combined" }
    /\ bls_df \in SeqsUpTo(BlsRows(CombSeries, CombYears, CombPeriods, CombValues), MaxCombBls)
    /\ pop_df \in { PopFrame(r) : r \in SeqsUpTo(PopRows(CombPopYears, CombPopulations), MaxCombPop) }
    /\ pop_stats = Pending
    /\ best_years = Pending
    /\ combined_report = Pending
    /\ IdleRun
    /\ bls_reads = 0
    /\ pop_reads = 0
    /\ IdleHandler
    /\ IdleCollector

NextReports == BestYearsStep \/ CombinedStep

SpecReports == InitReports /\ [][NextReports]_vars

-----------------------------------------------------------------------------
(* Specification of run_analytics: two invocations on one store snapshot *)

MaxSeed == 0

NumRuns == 2

\* the series with a prefix under bls-data/, in key order
StoreSeries == << "LNS14000000", "PRS30006032" >>

Point(y, p, v) == [ year |-> y, period |-> p, value |-> v ]

\* two well-formed data points
GoodPoints ==
    << Point(Num(2013), Str("Q01"), Num(150000)),
       Point(Num(2014), Str("Q01"), Num(200000)) >>

\* a well-formed data point followed by one whose value is "-"
DashPoints ==
    << Point(Num(2013), Str("Q01"), Num(150000)),
       Point(Num(2014), Str("Q01"), Bad) >>

BlsObjects ==
    { [ kind |-> "missing", points |-> << >> ],
      [ kind |-> "garbled", points |-> << >> ],
      [ kind |-> "raw", points |-> GoodPoints ],
      [ kind |-> "wrapped", points |-> GoodPoints ],
      [ kind |-> "wrapped", points |-> DashPoints ] }

\* increasing index sequences: the listing is in key order
RECURSIVE Increasing(_)
Increasing(s) == Len(s) <= 1 \/ (s[1] < s[2] /\ Increasing(Tail(s)))

BlsListings ==
    { [ ok |-> FALSE, prefixes |-> << >> ] }
    \cup
    { [ ok |-> TRUE,
        prefixes |-> [ i \in 1..Len(ix) |->
                         [ series_id |-> StoreSeries[ix[i]], object |-> objs[i] ] ] ] :
        ix \in { q \in SeqsUpTo(1..Len(StoreSeries), Len(StoreSeries)) : Increasing(q) },
        objs \in [ 1..Len(StoreSeries) -> BlsObjects ] }

PopRecord(y, p) == [ Year |-> y, Population |-> p ]

PopBodies ==
    { [ kind |-> "unreadable", records |-> << >> ],
      [ kind |-> "garbled", records |-> << >> ],
      [ kind |-> "nodata", records |-> << >> ],
      [ kind |-> "data", records |-> << >> ],
      [ kind |-> "data", records |-> << PopRecord(Num(2013), Num(316128839)),
                                        PopRecord(Num(2014), Num(318857056)) >> ],
      [ kind |-> "data", records |-> << PopRecord(Num(2013), Num(316128839)),
                                        PopRecord(Num(2013), Num(316128840)) >> ],
      [ kind |-> "data", records |-> << PopRecord(Num(2013), Absent),
                                        PopRecord(Num(2020), Absent) >> ],
      [ kind |-> "data", records |-> << PopRecord(Num(2013), Bad) >> ],
      [ kind |-> "data", records |-> << PopRecord(Num(2019), Num(328239523)),
                                        PopRecord(Num(2021), Num(331893745)) >> ] }

PopObjects ==
    { [ direct |-> TRUE, json |-> TRUE, body |-> b ] : b \in PopBodies }
    \cup
    { [ direct |-> d, json |-> j,
        body |-> [ kind |-> "data",
                   records |-> << PopRecord(Num(2013), Num(316128839)),
                                  PopRecord(Num(2014), Num(318857056)) >> ] ] :
        d \in BOOLEAN, j \in BOOLEAN }

PopListings ==
    { [ ok |-> FALSE, objects |-> << >> ], [ ok |-> TRUE, objects |-> << >> ] }
    \cup { [ ok |-> TRUE, objects |-> << o >> ] : o \in PopObjects }

\* the steps at which an exception no code path foresees may be raised
FaultPoints == { "none", "pop_stats", "best_years", "combined", "log" }

Init ==
    /\ pc = "load_bls"
    /\ bls_df = EmptyFrame
    /\ pop_df = PopFrame(<< >>)
    /\ pop_stats = Pending
    /\ best_years = Pending
    /\ combined_report = Pending
    /\ store \in [ bls : BlsListings, pop : PopListings ]
    /\ rng \in 0..MaxSeed
    /\ fault \in FaultPoints
    /\ run = 1
    /\ now = 0
    /\ log = << >>
    /\ result = Pending
    /\ first_run = Pending
    /\ bls_reads = 0
    /\ pop_reads = 0
    /\ IdleHandler
    /\ IdleCollector

\* bls_data = load_bls_data(bucket_name)
LoadBls ==
    /\ pc = "load_bls"
    /\ LET r == load_bls_data(store, rng)
       IN  /\ bls_reads' = r.reads
           /\ IF r.raised
                THEN /\ pc' = "except"
                     /\ UNCHANGED <<bls_df, rng, log>>
                ELSE /\ pc' = "load_pop"
                     /\ bls_df' = r.df
                     /\ rng' = IF r.fallback THEN (rng + SampleSize) % RngPeriod ELSE rng
                     /\ log' = log \o (IF r.fallback
                                         THEN << [ line |-> "bls_sample_data" ] >>
                                         ELSE << >>)
    /\ UNCHANGED <<pop_df, pop_stats, best_years, combined_report,
                   store, fault, run, now, result, first_run>>
    /\ UNCHANGED <<pop_reads, handlerVars, collectorVars>>

\* population_data = load_population_data(bucket_name)
LoadPop ==
    /\ pc = "load_pop"
    /\ LET r == load_population_data(store)
       IN  IF r.raised
             THEN /\ pc' = "except"
                  /\ UNCHANGED <<pop_df, log>>
             ELSE /\ pc' = "pop_stats"
                  /\ pop_df' = r.df
                  /\ log' = log \o (IF r.fallback THEN << [ line |-> "pop_sample_data" ] >>
                                    ELSE << >>)
    /\ pop_reads' = population_reads(store)
    /\ UNCHANGED <<bls_df, pop_stats, best_years, combined_report,
                   store, rng, fault, run, now, result, first_run>>
    /\ UNCHANGED <<bls_reads, handlerVars, collectorVars>>

\* pop_stats = calculate_population_statistics(population_data)
RunPopStats ==
    /\ pc = "pop_stats"
    /\ LET r == try_population_statistics(pop_df, fault = "pop_stats")
       IN  IF r.raised
             THEN /\ pc' = "except"
                  /\ UNCHANGED <<pop_stats, log>>
             ELSE /\ pc' = "best_years"
                  /\ pop_stats' = r.value
                  /\ log' = log \o (IF r.error THEN << [ line |-> "error_pop_stats" ] >>
                                    ELSE << >>)
    /\ UNCHANGED <<bls_df, pop_df, best_years, combined_report,
                   store, rng, fault, run, now, result, first_run>>
    /\ UNCHANGED <<bls_reads, pop_reads, handlerVars, collectorVars>>

\* best_years = calculate_best_years(bls_data)
RunBestYears ==
    /\ pc = "best_years"
    /\ LET r == try_best_years(bls_df, fault = "best_years")
       IN  IF r.raised
             THEN /\ pc' = "except"
                  /\ UNCHANGED <<best_years, log>>
             ELSE /\ pc' = "combined"
                  /\ best_years' = r.value
                  /\ log' = log \o (IF r.error THEN << [ line |-> "error_best_years" ] >>
                                    ELSE << >>)
    /\ UNCHANGED <<bls_df, pop_df, pop_stats, combined_report,
                   store, rng, fault, run, now, result, first_run>>
    /\ UNCHANGED <<bls_reads, pop_reads, handlerVars, collectorVars>>

\* combined_report = generate_combined_report(bls_data, population_data)
RunCombined ==
    /\ pc = "combined"
    /\ LET r == try_combined_report(bls_df, pop_df, fault = "combined")
       IN  IF r.raised
             THEN /\ pc' = "except"
                  /\ UNCHANGED <<combined_report, log>>
             ELSE /\ pc' = "log"
                  /\ combined_report' = r.value
                  /\ log' = log \o (IF r.error THEN << [ line |-> "error_combined" ] >>
                                    ELSE << >>)
    /\ UNCHANGED <<bls_df, pop_df, pop_stats, best_years,
                   store, rng, fault, run, now, result, first_run>>
    /\ UNCHANGED <<bls_reads, pop_reads, handlerVars, collectorVars>>

\* log_analytics_results(analytics_results): not guarded by a handler of
\* its own
LogResults ==
    /\ pc = "log"
    /\ IF fault = "log"
         THEN pc' = "except" /\ UNCHANGED log
         ELSE /\ pc' = "return"
              /\ log' = log \o log_analytics_results(pop_stats, best_years, combined_report)
    /\ UNCHANGED <<bls_df, pop_df, pop_stats, best_years, combined_report,
                   store, rng, fault, run, now, result, first_run>>
    /\ UNCHANGED <<bls_reads, pop_reads, handlerVars, collectorVars>>

\* return {'success': True, ...}
ReturnSuccess ==
    /\ pc = "return"
    /\ result' = success_result(pop_stats, best_years, combined_report, now)
    /\ pc' = "returned"
    /\ UNCHANGED <<bls_df, pop_df, pop_stats, best_years, combined_report,
                   store, rng, fault, run, now, log, first_run>>
    /\ UNCHANGED <<bls_reads, pop_reads, handlerVars, collectorVars>>

\* except Exception as e: return {'success': False, ...}
ReturnFailure ==
    /\ pc = "except"
    /\ result' = failure_result(fault, now)
    /\ log' = log \o << [ line |-> "error_run_analytics" ] >>
    /\ pc' = "returned"
    /\ UNCHANGED <<bls_df, pop_df, pop_stats, best_years, combined_report,
                   store, rng, fault, run, now, first_run>>
    /\ UNCHANGED <<bls_reads, pop_reads, handlerVars, collectorVars>>

\* the next trigger starts another invocation on the same snapshot, in the
\* same process (the generator keeps its state, the clock has advanced)
NextInvocation ==
    /\ pc = "returned"
    /\ run < NumRuns
    /\ first_run' = [ pop_stats |-> pop_stats, best_years |-> best_years,
                      combined_report |-> combined_report, result |-> result ]
    /\ run' = run + 1
    /\ now' = now + 1
    /\ pc' = "load_bls"
    /\ bls_df' = EmptyFrame
    /\ pop_df' = PopFrame(<< >>)
    /\ pop_stats' = Pending
    /\ best_years' = Pending
    /\ combined_report' = Pending
    /\ log' = << >>
    /\ UNCHANGED <<store, rng, fault, result>>
    /\ bls_reads' = 0
    /\ pop_reads' = 0
    /\ UNCHANGED <<handlerVars, collectorVars>>

Next ==
    \/ LoadBls
    \/ LoadPop
    \/ RunPopStats
    \/ RunBestYears
    \/ RunCombined
    \/ LogResults
    \/ ReturnSuccess
    \/ ReturnFailure
    \/ NextInvocation

Spec == Init /\ [][Next]_vars

-----------------------------------------------------------------------------
(* The Aggregator's lambda_handler: the loop over the SQS records of the   *)
(* event and over the S3 records of each message.  An object key is the    *)
(* sequence of its pieces, 'x in key' asking for a piece and               *)
(* key.endswith(x) for the last piece.                                     *)

population_namespace == "datausa-api/population"

json_extension == ".json"

Contains(key, piece) == \E i \in 1..Len(key) : key[i] = piece

EndsWith(key, piece) == Len(key) > 0 /\ key[Len(key)] = piece

should_trigger_analytics_by_extension(s3_key) ==
    EndsWith(s3_key, json_extension)

\* 'datausa-api/population' in s3_key and s3_key.endswith('.json')
should_trigger_analytics(s3_key) ==
    Contains(s3_key, population_namespace) /\ EndsWith(s3_key, json_extension)

\* the report frames when no run_analytics is modelled
IdleReports ==
    /\ bls_df = EmptyFrame
    /\ pop_df = PopFrame(<< >>)
    /\ pop_stats = Pending
    /\ best_years = Pending
    /\ combined_report = Pending

MaxS3Records == 2

MaxNeighbours == 1

\* keys of a population snapshot, of a population file that is no JSON, of
\* a labor-statistics object, of a copy under another prefix, and of a
\* backup whose name goes on after '.json'
S3Keys ==
    { << "datausa-api/population", "/20240101/datausa_population_latest_1", ".json" >>,
      << "datausa-api/population", "/20240101/datausa_population_latest_1", ".csv" >>,
      << "bls-data", "/LNS14000000/2024-01-01", ".json" >>,
      << "archive/", "datausa-api/population", "/20240101/latest", ".json" >>,
      << "datausa-api/population", "/20240101/latest", ".json", ".bak" >> }

\* the S3 records of a message: object-created ones for every key, an
\* object-removed one, and one without 'eventName'
S3Records ==
    { [ eventName |-> "s3:ObjectCreated:Put", key |-> k ] : k \in S3Keys }
    \cup
    { [ eventName |-> "s3:ObjectRemoved:Delete",
        key |-> << "datausa-api/population", "/20240101/datausa_population_latest_1", ".json" >> ],
      [ eventName |-> "absent", key |-> << >> ] }

\* an SQS record: its body is no JSON, or JSON without 'Records' (the
\* s3:TestEvent message), or an S3 notification
Messages ==
    { [ kind |-> "garbled", records |-> << >> ],
      [ kind |-> "no_records", records |-> << >> ] }
    \cup
    { [ kind |-> "records", records |-> r ] : r \in SeqsUpTo(S3Records, MaxS3Records) }

\* the messages put around the one under study in a batch
NeighbourMessages ==
    { [ kind |-> "garbled", records |-> << >> ],
      [ kind |-> "records",
        records |-> << [ eventName |-> "s3:ObjectCreated:Put",
                         key |-> << "datausa-api/population", "/20240102/latest", ".json" >> ] >> ],
      [ kind |-> "records", records |-> << [ eventName |-> "absent", key |-> << >> ] >> ] }

Events ==
    { before \o << m >> \o after :
        before \in SeqsUpTo(NeighbourMessages, MaxNeighbours),
        m \in Messages,
        after \in SeqsUpTo(NeighbourMessages, MaxNeighbours) }
    \cup { << >> }

IsObjectCreated(s3_record) == s3_record.eventName = "s3:ObjectCreated:Put"

InitHandler ==
    /\ pc = "handler"
    /\ IdleReports
    /\ IdleRun
    /\ bls_reads = 0
    /\ pop_reads = 0
    /\ IdleCollector
    /\ \/ event_form = "mapping" /\ event \in Events
       \/ event_form = "no_mapping" /\ event = << >>
    /\ rec_i = 1
    /\ s3_i = 1
    /\ analytics_calls = << >>
    /\ processed_messages = 0

\* a handler whose loop over the SQS records ends at the first record it
\* cannot use
SkipMessageAborting ==
    /\ pc = "handler"
    /\ event_form = "mapping"
    /\ rec_i <= Len(event)
    /\ event[rec_i].kind \in { "garbled", "no_records" }
    /\ rec_i' = Len(event) + 1
    /\ s3_i' = 1
    /\ UNCHANGED <<pc, event, analytics_calls, processed_messages, event_form>>
    /\ UNCHANGED <<bls_df, pop_df, pop_stats, best_years, combined_report, runVars,
                   bls_reads, pop_reads, collectorVars>>

\* json.loads(record['body']) raises, or 'Records' is not in the message:
\* on to the next SQS record
SkipMessage ==
    /\ pc = "handler"
    /\ event_form = "mapping"
    /\ rec_i <= Len(event)
    /\ event[rec_i].kind \in { "garbled", "no_records" }
    /\ rec_i' = rec_i + 1
    /\ s3_i' = 1
    /\ UNCHANGED <<pc, event, analytics_calls, processed_messages, event_form>>
    /\ UNCHANGED <<bls_df, pop_df, pop_stats, best_years, combined_report, runVars,
                   bls_reads, pop_reads, collectorVars>>

\* one S3 record of the message: s3_record['eventName'] raises KeyError on a
\* record without it, which ends the processing of this SQS record; an
\* object-created record whose key should trigger runs the analytics
ProcessS3Record ==
    /\ pc = "handler"
    /\ event_form = "mapping"
    /\ rec_i <= Len(event)
    /\ event[rec_i].kind = "records"
    /\ s3_i <= Len(event[rec_i].records)
    /\ LET s3_record == event[rec_i].records[s3_i]
       IN  IF s3_record.eventName = "absent"
             THEN /\ rec_i' = rec_i + 1
                  /\ s3_i' = 1
                  /\ UNCHANGED <<analytics_calls, processed_messages>>
             ELSE /\ s3_i' = s3_i + 1
                  /\ UNCHANGED rec_i
                  /\ IF IsObjectCreated(s3_record) /\ should_trigger_analytics(s3_record.key)
                       THEN /\ analytics_calls' = Append(analytics_calls, << rec_i, s3_i >>)
                            /\ processed_messages' = processed_messages + 1
                       ELSE UNCHANGED <<analytics_calls, processed_messages>>
    /\ UNCHANGED <<pc, event, event_form>>
    /\ UNCHANGED <<bls_df, pop_df, pop_stats, best_years, combined_report, runVars,
                   bls_reads, pop_reads, collectorVars>>

\* the S3 records of the message are done: on to the next SQS record
EndMessage ==
    /\ pc = "handler"
    /\ event_form = "mapping"
    /\ rec_i <= Len(event)
    /\ event[rec_i].kind = "records"
    /\ s3_i > Len(event[rec_i].records)
    /\ rec_i' = rec_i + 1
    /\ s3_i' = 1
    /\ UNCHANGED <<pc, event, analytics_calls, processed_messages, event_form>>
    /\ UNCHANGED <<bls_df, pop_df, pop_stats, best_years, combined_report, runVars,
                   bls_reads, pop_reads, collectorVars>>

\* the response of a handler that went through its records: the count in
\* 'Analytics completed: {processed_messages} triggers processed' and the
\* list of the results of the runs
handler_response(processed, calls) ==
    [ statusCode |-> 200, triggers_processed |-> processed,
      analytics_results |-> Len(calls) ]

\* the response of the outer handler: {'statusCode': 500, 'body': error}
handler_failure == [ statusCode |-> 500 ]

\* return {'statusCode': 200, ...}
HandlerReturn ==
    /\ pc = "handler"
    /\ event_form = "mapping"
    /\ rec_i > Len(event)
    /\ result' = handler_response(processed_messages, analytics_calls)
    /\ pc' = "handler_returned"
    /\ UNCHANGED handlerVars
    /\ UNCHANGED <<bls_df, pop_df, pop_stats, best_years, combined_report,
                   store, rng, fault, run, now, log, first_run,
                   bls_reads, pop_reads, collectorVars>>

\* event.get('Records', []) or the iteration over it raises on an event
\* that is no mapping with a list of records: the outer handler returns
\* the failure response
HandlerFail ==
    /\ pc = "handler"
    /\ event_form = "no_mapping"
    /\ result' = handler_failure
    /\ pc' = "handler_returned"
    /\ UNCHANGED handlerVars
    /\ UNCHANGED <<bls_df, pop_df, pop_stats, best_years, combined_report,
                   store, rng, fault, run, now, log, first_run,
                   bls_reads, pop_reads, collectorVars>>

NextHandler ==
    \/ SkipMessage
    \/ ProcessS3Record
    \/ EndMessage
    \/ HandlerReturn
    \/ HandlerFail

SpecHandler == InitHandler /\ [][NextHandler]_vars

-----------------------------------------------------------------------------
(* Specification of load_population_data on its own, on buckets whose      *)
(* population keys are spelled out.  A key is the sequence of its pieces   *)
(* after the listed prefix 'datausa-api/population/'.                      *)

\* the key collect_population_data writes for a date and a time of day:
\* datausa-api/population/{date}/datausa_population_latest_{date}_{time}.json
collector_population_key(date, time) ==
    << date, "/", "datausa_population_latest_", date, "_", time, ".json" >>

\* list_objects_v2(Prefix, Delimiter='/') puts under Contents the keys with
\* no delimiter after the prefix; the others are rolled up in CommonPrefixes
InContents(key) == ~Contains(key, "/")

\* the keys under the prefix, in the (lexicographic) order of a listing
PopKeys ==
    << collector_population_key("20240101", "080000"),
       collector_population_key("20240102", "080000"),
       << "a_population", ".json" >>,
       << "b_population", ".json" >>,
       << "readme", ".txt" >> >>

\* the body collect_population_data writes (the records of the latest year
\* only) and a body with two years
KeyedBodies ==
    { [ kind |-> "data", records |-> << PopRecord(Num(2023), Num(334914896)) >> ],
      [ kind |-> "data", records |-> << PopRecord(Num(2013), Num(316128839)),
                                        PopRecord(Num(2014), Num(318857056)) >> ] }

MaxPopObjects == 3

KeyedListings ==
    { [ ok |-> FALSE, objects |-> << >> ] }
    \cup
    { [ ok |-> TRUE,
        objects |-> [ i \in 1..Len(ix) |->
                        [ key    |-> PopKeys[ix[i]],
                          direct |-> InContents(PopKeys[ix[i]]),
                          json   |-> EndsWith(PopKeys[ix[i]], json_extension),
                          body   |-> bodies[i] ] ] ] :
        ix \in { q \in SeqsUpTo(1..Len(PopKeys), MaxPopObjects) : Increasing(q) },
        bodies \in [ 1..MaxPopObjects -> KeyedBodies ] }

InitPopLoad ==
    /\ pc = "load_pop"
    /\ IdleReports
    /\ store \in { [ bls |-> EmptyStore.bls, pop |-> l ] : l \in KeyedListings }
    /\ rng = 0
    /\ fault = "none"
    /\ run = 1
    /\ now = 0
    /\ log = << >>
    /\ result = Pending
    /\ first_run = Pending
    /\ bls_reads = 0
    /\ pop_reads = 0
    /\ IdleHandler
    /\ IdleCollector

NextPopLoad == LoadPop

SpecPopLoad == InitPopLoad /\ [][NextPopLoad]_vars

-----------------------------------------------------------------------------
(* Specification of load_bls_data on its own, on buckets with more series  *)
(* prefixes than the cap                                                   *)

\* series of get_bls_series_list, in the order of a listing
TrackedSeries ==
    << "CES0000000001", "CES0500000001", "CES0500000002", "CES0500000003",
       "CES0500000007", "CES0500000011", "CES0600000001", "CES0800000001",
       "CES1021000001", "CES2000000001", "CES3000000001", "CES3000000002" >>

MaxPrefixes == 11

\* data points that lack the year, the period and the value in turn, and a
\* complete one
HolePoints ==
    << Point(Absent, Str("Q01"), Num(150000)),
       Point(Num(2014), Absent, Num(200000)),
       Point(Num(2015), Str("Q01"), Absent),
       Point(Num(2016), Str("Q01"), Num(100000)) >>

MissingObject == [ kind |-> "missing", points |-> << >> ]

GoodObject == [ kind |-> "wrapped", points |-> GoodPoints ]

HoleObject == [ kind |-> "wrapped", points |-> HolePoints ]

\* the first n tracked series, the first with any of the three objects and
\* the others with a good object or none
ScanListings ==
    { [ ok |-> TRUE,
        prefixes |-> [ i \in 1..n |-> [ series_id |-> TrackedSeries[i],
                                        object |-> IF i = 1 THEN first ELSE rest[i] ] ] ] :
        n \in 0..MinOf(MaxPrefixes, Len(TrackedSeries)),
        first \in { MissingObject, GoodObject, HoleObject },
        rest \in [ 1..MinOf(MaxPrefixes, Len(TrackedSeries)) -> { MissingObject, GoodObject } ] }

InitBlsLoad ==
    /\ pc = "load_bls"
    /\ IdleReports
    /\ store \in { [ bls |-> l, pop |-> EmptyStore.pop ] : l \in ScanListings }
    /\ rng = 0
    /\ fault = "none"
    /\ run = 1
    /\ now = 0
    /\ log = << >>
    /\ result = Pending
    /\ first_run = Pending
    /\ bls_reads = 0
    /\ pop_reads = 0
    /\ IdleHandler
    /\ IdleCollector

NextBlsLoad == LoadBls

SpecBlsLoad == InitBlsLoad /\ [][NextBlsLoad]_vars

-----------------------------------------------------------------------------
(* The Collector: one collection cycle of its lambda_handler, which writes  *)
(* the series objects one after the other and then the population          *)
(* snapshot.  A bucket key is the sequence of its pieces, the prefix       *)
(* first.                                                                  *)

MaxCycleSeries == 3

\* the head of the list get_bls_series_list() returns
CollectedSeries ==
    << "LNS14000000", "LNS12000000", "LNS11000000", "LNS13000000", "LNS12300000" >>

\* get_bls_series_list(), cut to the series the model collects
get_bls_series_list == SubSeq(CollectedSeries, 1, MinOf(MaxCycleSeries, Len(CollectedSeries)))

\* f"bls-data/{series_id}/{date}.json"
bls_key(series_id, date) == << "bls-data/", series_id, "/", date, ".json" >>

\* f"datausa-api/population/{date}/datausa_population_latest_{timestamp}.json"
population_key(date, time) ==
    << "datausa-api/population/" >> \o collector_population_key(date, time)

\* the bucket's event notification: object-created events of keys with
\* prefix 'datausa-api/population/' and suffix '.json' go to the queue
NotificationFilter(key) ==
    /\ Len(key) > 0
    /\ key[1] = "datausa-api/population/"
    /\ EndsWith(key, json_extension)

\* what the BLS API answers for a series (a response with data, a response
\* whose series list is empty, nothing usable) and what put_object does
SeriesAnswers ==
    [ fetch : { "data", "no_series", "none" }, put : { "ok", "fails" } ]

\* what the DataUSA API answers and what put_object does
PopulationAnswers ==
    [ fetch : { "data", "empty", "raises" }, put : { "ok", "fails" } ]

\* store_data_in_s3: the key is in the bucket afterwards when put_object
\* succeeded; a failure is caught, logged and answered with False
store_data_in_s3(keys, key, put) ==
    IF put = "ok" THEN [ keys |-> Append(keys, key), stored |-> TRUE ]
    ELSE [ keys |-> keys, stored |-> FALSE ]

\* the entry of results for one series: 'no_data' when fetch_bls_data gave
\* None, 'error' when counting the records raised (after the object was
\* stored), 'success' otherwise, whatever store_data_in_s3 returned
SeriesStatus(answer) ==
    CASE answer.fetch = "none" -> "no_data"
      [] answer.fetch = "no_series" -> "error"
      [] answer.fetch = "data" -> "success"

\* the body the handler returns with statusCode 200: the counts of
\* collect_bls_data and the success flag of collect_population_data, which
\* is True unless the fetch raised
collector_result(results, population_success) ==
    [ statusCode |-> 200,
      bls_results |->
        [ successful |-> Cardinality({ k \in 1..Len(results) :
                                         results[k].status = "success" }),
          total |-> Len(results) ],
      population_results |-> [ success |-> population_success ],
      total_successful |->
        Cardinality({ k \in 1..Len(results) : results[k].status = "success" })
        + (IF population_success THEN 1 ELSE 0) ]

InitCollector ==
    /\ pc = "collect_bls"
    /\ IdleReports
    /\ IdleRun
    /\ bls_reads = 0
    /\ pop_reads = 0
    /\ IdleHandler
    /\ api \in [ series : [ 1..Len(get_bls_series_list) -> SeriesAnswers ],
                 population : PopulationAnswers ]
    /\ series_i = 1
    /\ bls_results = << >>
    /\ bucket = << >>
    /\ queue = << >>

\* one turn of the loop of collect_bls_data
CollectSeries ==
    /\ pc = "collect_bls"
    /\ series_i <= Len(get_bls_series_list)
    /\ LET series_id == get_bls_series_list[series_i]
           answer    == api.series[series_i]
           s3_key    == bls_key(series_id, "2024-01-01")
           stored    == IF answer.fetch = "none"
                          THEN [ keys |-> bucket, stored |-> FALSE ]
                          ELSE store_data_in_s3(bucket, s3_key, answer.put)
       IN  /\ bucket' = stored.keys
           /\ queue' = IF stored.stored /\ NotificationFilter(s3_key)
                         THEN Append(queue, s3_key) ELSE queue
           /\ bls_results' = Append(bls_results,
                                    [ series_id |-> series_id,
                                      status |-> SeriesStatus(answer) ])
    /\ series_i' = series_i + 1
    /\ UNCHANGED <<pc, api>>
    /\ UNCHANGED <<bls_df, pop_df, pop_stats, best_years, combined_report, runVars,
                   bls_reads, pop_reads, handlerVars>>

\* the loop is over: collect_population_data
CollectPopulation ==
    /\ pc = "collect_bls"
    /\ series_i > Len(get_bls_series_list)
    /\ LET s3_key == population_key("20240101", "080000")
           stored == IF api.population.fetch = "raises"
                       THEN [ keys |-> bucket, stored |-> FALSE ]
                       ELSE store_data_in_s3(bucket, s3_key, api.population.put)
       IN  /\ bucket' = stored.keys
           /\ queue' = IF stored.stored /\ NotificationFilter(s3_key)
                         THEN Append(queue, s3_key) ELSE queue
    /\ result' = collector_result(bls_results, api.population.fetch # "raises")
    /\ pc' = "collector_returned"
    /\ UNCHANGED <<api, series_i, bls_results>>
    /\ UNCHANGED <<bls_df, pop_df, pop_stats, best_years, combined_report,
                   store, rng, fault, run, now, log, first_run,
                   bls_reads, pop_reads, handlerVars>>

NextCollector == CollectSeries \/ CollectPopulation

SpecCollector == InitCollector /\ [][NextCollector]_vars

-----------------------------------------------------------------------------
(* The round trip of a labor-statistics response: a collection cycle       *)
(* stores the responses, the trigger is delivered, and load_bls_data       *)
(* lists and reads the bucket on the same day.                             *)

\* the series of CollectedSeries in key order, the order of a listing
CollectedKeyOrder ==
    << "LNS11000000", "LNS12000000", "LNS12300000", "LNS13000000", "LNS14000000" >>

\* the data points of a response of the BLS API
ResponsePoints ==
    { << Point(Num(2023), Str("M12"), Num(370000)) >>,
      << Point(Num(2023), Str("M12"), Num(370000)),
         Point(Num(2024), Str("M01"), Num(410000)) >> }

\* what the API answers for a series in the cycle, with the data points of
\* a usable response
RoundTripAnswers ==
    { [ fetch |-> "none", put |-> "ok", points |-> << >> ] }
    \cup { [ fetch |-> "data", put |-> p, points |-> pts ] :
             p \in { "ok", "fails" }, pts \in ResponsePoints }

\* json.dumps(data) of the response fetch_bls_data returned: the top-level
\* keys of the BLS API's answer, the series under 'Results'
stored_body(answer) ==
    [ top |-> { "status", "responseTime", "message", "Results" },
      points |-> answer.points ]

\* json.loads of a stored body as load_bls_data looks at it: the data
\* points are taken from data['data']['Results'] and only when the body
\* has the key 'data'
object_of_body(body) ==
    [ kind |-> IF "data" \in body.top THEN "wrapped" ELSE "raw",
      points |-> body.points ]

\* the positions, in key order, of the series with an object in the bucket
ListedSeries(keys) ==
    SelectSeq(CollectedKeyOrder,
              LAMBDA sid : \E k \in 1..Len(keys) :
                              keys[k][1] = "bls-data/" /\ keys[k][2] = sid)

\* the answer the cycle got for a series
AnswerFor(sid) ==
    api.series[CHOOSE i \in 1..Len(get_bls_series_list) : get_bls_series_list[i] = sid]

\* the bucket as list_objects_v2 and get_object show it after the cycle
ListedStore ==
    LET listed == ListedSeries(bucket)
    IN  [ bls |-> [ ok |-> TRUE,
                    prefixes |-> [ i \in 1..Len(listed) |->
                                     [ series_id |-> listed[i],
                                       object |-> object_of_body(
                                                    stored_body(AnswerFor(listed[i]))) ] ] ],
          pop |-> EmptyStore.pop ]

InitRoundTrip ==
    /\ pc = "collect_bls"
    /\ IdleReports
    /\ IdleRun
    /\ bls_reads = 0
    /\ pop_reads = 0
    /\ IdleHandler
    /\ api \in [ series : [ 1..Len(get_bls_series_list) -> RoundTripAnswers ],
                 population : PopulationAnswers ]
    /\ series_i = 1
    /\ bls_results = << >>
    /\ bucket = << >>
    /\ queue = << >>

\* the trigger of the cycle is delivered and the Aggregator starts on the
\* bucket as the cycle left it
DeliverTrigger ==
    /\ pc = "collector_returned"
    /\ queue # << >>
    /\ store' = ListedStore
    /\ queue' = Tail(queue)
    /\ pc' = "load_bls"
    /\ UNCHANGED <<bls_df, pop_df, pop_stats, best_years, combined_report,
                   rng, fault, run, now, log, result, first_run>>
    /\ UNCHANGED <<bls_reads, pop_reads, handlerVars, api, series_i, bls_results, bucket>>

NextRoundTrip == CollectSeries \/ CollectPopulation \/ DeliverTrigger \/ LoadBls

SpecRoundTrip == InitRoundTrip /\ [][NextRoundTrip]_vars

-----------------------------------------------------------------------------
(* Specification of log_analytics_results on its own: the reports are      *)
(* drawn with up to MaxLoggedSeries best-year entries and up to            *)
(* MaxLoggedRecords combined records.                                      *)

MaxLoggedSeries == 7

MaxLoggedRecords == 5

LoggedBestYears(k) ==
    [ i \in 1..k |-> [ series_id |-> TrackedSeries[i],
                       best_year |-> 2009 + i,
                       max_value |-> 100000 * i ] ]

LoggedReport(k) ==
    [ target_series |-> target_series,
      target_period |-> target_period,
      records       |-> [ i \in 1..k |->
                            [ series_id  |-> target_series,
                              year       |-> 2009 + i,
                              period     |-> target_period,
                              value      |-> Cell(100000 * i),
                              population |-> IF i % 2 = 0 THEN Null
                                             ELSE Cell(300000000 + i) ] ],
      total_records |-> k ]

LoggedStats ==
    { NoneVal,
      [ mean_population |-> 320000000, std_deviation |-> 4000000,
        years_included |-> << 2013, 2014 >>, data_points |-> 2 ] }

InitLog ==
    /\ pc = "log"
    /\ bls_df = EmptyFrame
    /\ pop_df = PopFrame(<< >>)
    /\ pop_stats \in LoggedStats
    /\ best_years \in { LoggedBestYears(k) : k \in 0..MinOf(MaxLoggedSeries, Len(TrackedSeries)) }
    /\ combined_report \in { NoneVal } \cup { LoggedReport(k) : k \in 1..MaxLoggedRecords }
    /\ IdleRun
    /\ bls_reads = 0
    /\ pop_reads = 0
    /\ IdleHandler
    /\ IdleCollector

NextLog == LogResults

SpecLog == InitLog /\ [][NextLog]_vars

-----------------------------------------------------------------------------
(* Reference quantities the claims are stated with *)

\* the summed value of one series in one year, over the rows of the frame
YearTotal(df, s, y) ==
    SeqSum([ i \in 1..Len(df) |->
               IF df[i].series_id = s /\ df[i].year = y THEN df[i].value ELSE 0 ])

SeriesOf(df) == { df[i].series_id : i \in 1..Len(df) }

YearsOf(df, s) == { df[i].year : i \in { j \in 1..Len(df) : df[j].series_id = s } }

BestDone == pc = "done"

\* series PRS30006032, period Q01, values 1.5 (2020) and 2.0 (2021)
BestScenario ==
    << [ series_id |-> "PRS30006032", year |-> 2020, period |-> "Q01", value |-> 150000 ],
       [ series_id |-> "PRS30006032", year |-> 2021, period |-> "Q01", value |-> 200000 ] >>

\* C1: calculate_best_years returns exactly one entry per distinct series_id
\* of the input; the entry's best_year is a year of that series whose summed
\* value is >= the summed value of every other year of the series, and
\* max_value is that sum as reported, i.e. rounded to 4 decimal places.
C1_BestYearIsMax ==
    BestDone =>
      /\ { best_years[i].series_id : i \in 1..Len(best_years) } = SeriesOf(bls_df)
      /\ \A i, j \in 1..Len(best_years) :
            best_years[i].series_id = best_years[j].series_id => i = j
      /\ \A i \in 1..Len(best_years) :
            LET e == best_years[i]
            IN  /\ e.best_year \in YearsOf(bls_df, e.series_id)
                /\ \A y \in YearsOf(bls_df, e.series_id) :
                      YearTotal(bls_df, e.series_id, e.best_year)
                        >= YearTotal(bls_df, e.series_id, y)
                /\ e.max_value = Round4(YearTotal(bls_df, e.series_id, e.best_year))
                /\ e.max_value - YearTotal(bls_df, e.series_id, e.best_year) \in -5..5
      /\ bls_df = BestScenario =>
            best_years = << [ series_id |-> "PRS30006032", best_year |-> 2021,
                              max_value |-> 200000 ] >>

\* a series with two years of different totals was analysed, and the winning
\* total is not a multiple of 1e-4
C1_Witness ==
    /\ BestDone
    /\ \E i \in 1..Len(best_years) :
          LET s == best_years[i].series_id
          IN  /\ Cardinality(YearsOf(bls_df, s)) = 2
              /\ \E y \in YearsOf(bls_df, s) :
                    YearTotal(bls_df, s, y) < YearTotal(bls_df, s, best_years[i].best_year)
              /\ best_years[i].max_value
                   # YearTotal(bls_df, s, best_years[i].best_year)

TiedTopYears(df, s) ==
    { y \in YearsOf(df, s) :
        \A z \in YearsOf(df, s) : YearTotal(df, s, y) >= YearTotal(df, s, z) }

\* C2: when several years of a series tie exactly on the maximal summed
\* value, best_year is the smallest of the tied years, whatever the order of
\* the rows in the input frame.
C2_TieSmallestYear ==
    BestDone =>
      \A i \in 1..Len(best_years) :
        \A y \in TiedTopYears(bls_df, best_years[i].series_id) :
          best_years[i].best_year <= y

\* two years tie on the maximum and the later year's rows come first
C2_Witness ==
    /\ BestDone
    /\ \E i \in 1..Len(best_years) :
          /\ Cardinality(TiedTopYears(bls_df, best_years[i].series_id)) = 2
          /\ bls_df[1].series_id = best_years[i].series_id
          /\ bls_df[1].year > best_years[i].best_year

-----------------------------------------------------------------------------
(* Population statistics *)

PopDone == pc = "done"

\* the positions of the observations of the frame whose year is in 2013..2018
InRange(df) ==
    { i \in 1..Len(df.rows) :
        ~df.rows[i].year.null /\ df.rows[i].year.v \in 2013..2018 }

InRangeTotal(df) ==
    SeqSum([ i \in 1..Len(df.rows) |->
               IF i \in InRange(df) THEN df.rows[i].Population.v ELSE 0 ])

\* C3: when the set of observations with 2013 <= year <= 2018 is non-empty,
\* mean_population is the arithmetic mean of their populations rounded to the
\* nearest integer (it differs from the exact mean by at most 1/2) and
\* data_points is their number; for the data {2013: 316128839, ...,
\* 2018: 327167439} the mean is 322069808 and data_points is 6.
C3_MeanAndCount ==
    PopDone =>
      /\ InRange(pop_df) # {} =>
           LET n == Cardinality(InRange(pop_df))
           IN  /\ ~IsNone(pop_stats)
               /\ ~pop_stats.mean_population.null
               /\ 2 * Abs(n * pop_stats.mean_population.v - InRangeTotal(pop_df)) <= n
               /\ pop_stats.data_points = n
      /\ pop_df \in { PopScenario, create_sample_population_data } =>
           /\ pop_stats.mean_population = Cell(322069808)
           /\ pop_stats.data_points = 6

\* statistics were computed over two in-range observations (one at each end
\* of the range) whose exact mean is not an integer, with out-of-range rows
\* in the frame
C3_Witness ==
    /\ PopDone
    /\ Cardinality(InRange(pop_df)) = 2
    /\ Len(pop_df.rows) = 3
    /\ \E i, j \in InRange(pop_df) :
          pop_df.rows[i].year.v = 2013 /\ pop_df.rows[j].year.v = 2018
    /\ InRangeTotal(pop_df) % 2 = 1
    /\ ~IsNone(pop_stats)

\* C4: calculate_population_statistics returns None, without raising, when no
\* observation has a year in 2013..2018, and only then: with at least one
\* observation in range a PopulationSummary is returned.
C4_AbsentIffEmpty ==
    PopDone =>
      /\ IsNone(pop_stats) <=> InRange(pop_df) = {}
      /\ InRange(pop_df) = {} /\ pop_df.rows # << >> => ~PopStatsRaises(pop_df)

\* a frame holding only observations just outside the range gave None
C4_Witness ==
    /\ PopDone
    /\ IsNone(pop_stats)
    /\ \E i, j \in 1..Len(pop_df.rows) :
          pop_df.rows[i].year.v = 2012 /\ pop_df.rows[j].year.v = 2019

-----------------------------------------------------------------------------
(* Combined report *)

CombDone == pc = "done"

SelectorMatches(df) ==
    { i \in 1..Len(df) : df[i].series_id = "PRS30006032" /\ df[i].period = "Q01" }

\* C5: when generate_combined_report returns a report, total_records and the
\* length of records both equal the number of labor-statistics observations
\* with series_id PRS30006032 and period Q01.
C5_RowCountEqualsMatches ==
    CombDone /\ ~IsNone(combined_report) =>
      /\ combined_report.total_records = Cardinality(SelectorMatches(bls_df))
      /\ Len(combined_report.records) = Cardinality(SelectorMatches(bls_df))

PopulationsOfYear(df, y) ==
    { df.rows[i].Population.v :
        i \in { j \in 1..Len(df.rows) : ~df.rows[j].year.null /\ df.rows[j].year.v = y } }

\* C6: in every row of a CombinedReport, population is null exactly when the
\* population collection has no observation for the row's year, and otherwise
\* is a value the population collection holds for that year.
C6_PopulationNullOrOfYear ==
    CombDone /\ ~IsNone(combined_report) =>
      \A i \in 1..Len(combined_report.records) :
        LET rec == combined_report.records[i]
        IN  /\ rec.population.null <=> PopulationsOfYear(pop_df, rec.year) = {}
            /\ ~rec.population.null => rec.population.v \in PopulationsOfYear(pop_df, rec.year)

\* a report with one row joined to a population and one row without any
C6_Witness ==
    /\ CombDone
    /\ ~IsNone(combined_report)
    /\ \E i, j \in 1..Len(combined_report.records) :
          /\ combined_report.records[i].population.null
          /\ ~combined_report.records[j].population.null
    /\ \E k \in 1..Len(pop_df.rows) :
          \A i \in 1..Len(combined_report.records) :
             combined_report.records[i].population # pop_df.rows[k].Population

-----------------------------------------------------------------------------
(* Claims about run_analytics and the loaders *)

Returned == pc = "returned"

Logged(l) == \E i \in 1..Len(log) : log[i].line = l

\* the labor-statistics part of the store gives nothing to read: the
\* listing fails, or lists no series, or every listed series has no object
\* of today or one whose body is no JSON
BlsNothingReadable(st) ==
    \/ ~st.bls.ok
    \/ \A i \in 1..Len(st.bls.prefixes) :
          st.bls.prefixes[i].object.kind \in { "missing", "garbled" }

\* the population part of the store gives nothing to read: the listing
\* fails, or lists no .json object, or the object it takes cannot be read,
\* is no JSON, or holds a year or population that is no number
PopNothingReadable(st) ==
    \/ ~st.pop.ok
    \/ \A i \in 1..Len(st.pop.objects) :
          \/ ~(st.pop.objects[i].direct /\ st.pop.objects[i].json)
          \/ st.pop.objects[i].body.kind \in { "unreadable", "garbled" }
          \/ \E k \in 1..Len(st.pop.objects[i].body.records) :
                \/ st.pop.objects[i].body.records[k].Year.k = "bad"
                \/ st.pop.objects[i].body.records[k].Population.k = "bad"

\* the frame is the built-in labor-statistics dataset: its 220 rows in loop
\* order, each value in [1.0, 3.0)
IsSampleBls(df) ==
    /\ Len(df) = SampleSize
    /\ [ i \in 1..Len(df) |-> [ df[i] EXCEPT !.value = 200000 ] ]
          = create_sample_bls_data_fixed(0)
    /\ \A i \in 1..Len(df) : df[i].value >= 100000 /\ df[i].value < 300000

C8_SameReportsOnSameSnapshot ==
    Returned /\ run > 1 =>
      /\ pop_stats = first_run.pop_stats
      /\ best_years = first_run.best_years
      /\ combined_report = first_run.combined_report

ReportFields == { "population_statistics", "best_years_analysis", "combined_report" }

\* C9 as stated: every result has a boolean success flag and a timestamp; a
\* result with success true carries the three named reports and a result
\* with success false carries an error description.
C9_SuccessCarriesReports ==
    Returned =>
      /\ result.success \in BOOLEAN
      /\ "timestamp" \in DOMAIN result
      /\ result.success => ReportFields \subseteq DOMAIN result
      /\ ~result.success => "error" \in DOMAIN result

\* C9 as the code has it: every result has a boolean success flag and the
\* time of its return; a result with success true carries, instead of the
\* three reports, a summary of them (whether the population summary exists,
\* how many series have a best year, whether the combined report exists),
\* the reports themselves going to the log only; a result with success
\* false carries an error description and nothing else.
C9_SuccessCarriesSummary ==
    Returned =>
      /\ result.success \in BOOLEAN
      /\ result.timestamp = now
      /\ result.success =>
           /\ DOMAIN result = { "success", "timestamp", "analytics_summary" }
           /\ result.analytics_summary =
                [ population_stats_calculated |-> ~IsNone(pop_stats),
                  best_years_analyzed |-> Len(best_years),
                  combined_report_generated |-> ~IsNone(combined_report) ]
           /\ Logged("summary_end")
      /\ ~result.success =>
           /\ DOMAIN result = { "success", "error", "timestamp" }
           /\ result.error \in FaultPoints

\* a successful later run whose three reports all exist
C9_Witness ==
    /\ Returned
    /\ run > 1
    /\ result.success
    /\ result.timestamp = now
    /\ result.analytics_summary.population_stats_calculated
    /\ result.analytics_summary.best_years_analyzed > 0
    /\ result.analytics_summary.combined_report_generated

\* an exception no code path foresees is raised in one of the steps of
\* report generation
UnexpectedRaised == fault # "none"

\* C10 as stated: if an unforeseen error is raised anywhere during report
\* generation, the result has success false, a string error message and a
\* timestamp, and neither reports nor partial report information.
C10_AnyErrorFailsRun ==
    Returned /\ UnexpectedRaised =>
      /\ ~result.success
      /\ DOMAIN result = { "success", "error", "timestamp" }

\* C10 as the code has it: an unforeseen error raised inside one of the three
\* report functions is caught there, logged, and leaves that one report
\* absent (empty for the best years) while the run still returns success
\* true with the other reports computed; only an error raised outside them
\* (in the logging of the results) makes the run return success false with
\* the error message and a timestamp and without report information.
C10_OnlyUnguardedErrorFailsRun ==
    Returned =>
      /\ fault = "log" =>
           /\ ~result.success
           /\ DOMAIN result = { "success", "error", "timestamp" }
           /\ result.error = fault
           /\ result.timestamp = now
           /\ Logged("error_run_analytics")
      /\ fault = "pop_stats" =>
           /\ result.success /\ IsNone(pop_stats) /\ Logged("error_pop_stats")
           /\ ~result.analytics_summary.population_stats_calculated
           /\ best_years = calculate_best_years(bls_df)
      /\ fault = "best_years" =>
           /\ result.success /\ best_years = << >> /\ Logged("error_best_years")
           /\ result.analytics_summary.best_years_analyzed = 0
           /\ ~PopStatsRaises(pop_df) =>
                pop_stats = calculate_population_statistics(pop_df)
      /\ fault = "combined" =>
           /\ result.success /\ IsNone(combined_report) /\ Logged("error_combined")
           /\ ~result.analytics_summary.combined_report_generated
           /\ best_years = calculate_best_years(bls_df)

\* an error raised inside calculate_population_statistics on data that would
\* have given a summary: the run succeeds with the other two reports
C10_Witness ==
    /\ Returned
    /\ fault = "pop_stats"
    /\ ~PopStatsRaises(pop_df)
    /\ ~IsNone(calculate_population_statistics(pop_df))
    /\ result.success
    /\ best_years # << >>
    /\ ~IsNone(combined_report)

-----------------------------------------------------------------------------
(* Claims about empty inputs, ordering and the summary's fields *)

\* the population frame has both columns and no observation in 2013..2018
NoYearInRange(df) ==
    /\ { "year", "Population" } \subseteq df.cols
    /\ InRange(df) = {}

\* what the report functions give on the loaded frames, an error caught by
\* the report function giving its "no result" value
PopulationSummaryOf(df) ==
    IF PopStatsRaises(df) THEN NoneVal ELSE calculate_population_statistics(df)

CombinedReportOf(bdf, pdf) ==
    IF CombinedRaises(bdf, pdf) THEN NoneVal ELSE generate_combined_report(bdf, pdf)

\* C11: when no population observation has its year in range, or no labor
\* observation matches the selector, that report alone is absent, the other
\* reports are what their functions compute from the loaded data, and the
\* result has success true.
C11_EmptyResultAbsorbed ==
    Returned /\ fault = "none" =>
      /\ NoYearInRange(pop_df) =>
           /\ IsNone(pop_stats)
           /\ result.success
           /\ ~result.analytics_summary.population_stats_calculated
           /\ best_years = calculate_best_years(bls_df)
           /\ combined_report = CombinedReportOf(bls_df, pop_df)
      /\ SelectorMatches(bls_df) = {} =>
           /\ IsNone(combined_report)
           /\ result.success
           /\ ~result.analytics_summary.combined_report_generated
           /\ best_years = calculate_best_years(bls_df)
           /\ pop_stats = PopulationSummaryOf(pop_df)

\* a run on population data of 2019 and 2021 only and on labor data with a
\* matching observation: no population summary, the other two reports exist
C11_Witness ==
    /\ Returned
    /\ fault = "none"
    /\ NoYearInRange(pop_df)
    /\ Len(pop_df.rows) > 0
    /\ IsNone(pop_stats)
    /\ best_years # << >>
    /\ ~IsNone(combined_report)
    /\ result.success

\* a run on labor data without a matching observation and on population
\* data in range: no combined report, the other two reports exist
C11_WitnessCombined ==
    /\ Returned
    /\ fault = "none"
    /\ SelectorMatches(bls_df) = {}
    /\ IsNone(combined_report)
    /\ best_years # << >>
    /\ ~IsNone(pop_stats)
    /\ result.success

-----------------------------------------------------------------------------
(* Claims about the trigger *)

HandlerReturned == pc = "handler_returned"

\* the S3 records the handler gets to: those of a message that parses, up
\* to the first record without an event name
Delivered(i, j) ==
    /\ event[i].kind = "records"
    /\ \A k \in 1..j : event[i].records[k].eventName # "absent"

\* the number of times run_analytics was called for S3 record j of message i
CallsFor(i, j) ==
    Cardinality({ k \in 1..Len(analytics_calls) : analytics_calls[k] = << i, j >> })

\* the key holds the population namespace and its last piece is '.json'
IsTriggerKey(key) ==
    /\ \E n \in DOMAIN key : key[n] = "datausa-api/population"
    /\ key # << >>
    /\ key[Len(key)] = ".json"

\* C12: for every S3 object-created record the handler gets to, run_analytics
\* is called exactly once if the key holds 'datausa-api/population' and ends
\* in '.json', and is not called otherwise; no call is made for any other
\* record.
C12_TriggerOncePerMatchingRecord ==
    HandlerReturned =>
      /\ \A i \in 1..Len(event) : \A j \in 1..Len(event[i].records) :
           CallsFor(i, j) =
             IF /\ Delivered(i, j)
                /\ event[i].records[j].eventName = "s3:ObjectCreated:Put"
                /\ IsTriggerKey(event[i].records[j].key)
               THEN 1 ELSE 0
      /\ \A k \in 1..Len(analytics_calls) :
           /\ analytics_calls[k][1] \in 1..Len(event)
           /\ analytics_calls[k][2] \in 1..Len(event[analytics_calls[k][1]].records)

\* a batch of two messages holding a created snapshot key that was run once,
\* a created key with the namespace but another extension that was not run,
\* and a removed snapshot key that was not run
C12_Witness ==
    /\ HandlerReturned
    /\ Len(event) >= 2
    /\ \E i \in 1..Len(event) : \E j, k \in 1..Len(event[i].records) :
         /\ Delivered(i, j) /\ Delivered(i, k)
         /\ event[i].records[j].eventName = "s3:ObjectCreated:Put"
         /\ event[i].records[k].eventName = "s3:ObjectCreated:Put"
         /\ IsTriggerKey(event[i].records[j].key)
         /\ ~IsTriggerKey(event[i].records[k].key)
         /\ event[i].records[k].key[1] = "datausa-api/population"
         /\ CallsFor(i, j) = 1
         /\ CallsFor(i, k) = 0
    /\ Len(analytics_calls) >= 2

-----------------------------------------------------------------------------
(* Claims about the labor-statistics reports on empty and unmatched input *)

\* calculate_best_years has run (the combined report was not asked for)
BestYearsRan == pc = "done" /\ combined_report = Pending

\* generate_combined_report has run
CombinedRan == pc = "done" /\ combined_report # Pending

\* C13: for an empty labor-statistics collection calculate_best_years returns
\* an empty list and generate_combined_report returns absence; for a
\* non-empty collection with no observation of (PRS30006032, Q01)
\* generate_combined_report returns absence.  Neither raises: each returns a
\* value.
C13_EmptyAndUnmatched ==
    /\ BestYearsRan /\ bls_df = << >> => best_years = << >>
    /\ CombinedRan /\ SelectorMatches(bls_df) = {} => combined_report = NoneVal

\* generate_combined_report has answered absence on the empty collection
C13_Witness ==
    /\ CombinedRan
    /\ bls_df = << >>
    /\ Len(pop_df.rows) > 0
    /\ combined_report = NoneVal

\* calculate_best_years has answered the empty list on the empty collection
C13_WitnessBestYears ==
    /\ BestYearsRan
    /\ bls_df = << >>
    /\ best_years = << >>

\* generate_combined_report has answered absence on observations of the
\* target series in another quarter
C13_WitnessUnmatched ==
    /\ CombinedRan
    /\ Len(bls_df) > 0
    /\ \A i \in 1..Len(bls_df) :
          bls_df[i].series_id = "PRS30006032" /\ bls_df[i].period = "Q02"
    /\ Len(pop_df.rows) > 0
    /\ combined_report = NoneVal

\* C14: the records of every CombinedReport are in non-decreasing order of
\* year, whatever the order of the observations in the labor collection.
C14_RecordsAscendingByYear ==
    CombDone /\ ~IsNone(combined_report) =>
      \A i, j \in 1..Len(combined_report.records) :
        i < j => combined_report.records[i].year <= combined_report.records[j].year

\* a report on a collection that holds the later year first
C14_Witness ==
    /\ CombDone
    /\ ~IsNone(combined_report)
    /\ Len(bls_df) = 2
    /\ SelectorMatches(bls_df) = { 1, 2 }
    /\ bls_df[1].year > bls_df[2].year
    /\ Len(combined_report.records) >= 2
    /\ combined_report.records[1].year < combined_report.records[Len(combined_report.records)].year

-----------------------------------------------------------------------------
(* Claims about the fields of the population summary *)

\* the years of the observations in range
YearsInRange(df) == { df.rows[i].year.v : i \in InRange(df) }

\* C15: years_included is the sorted list of the distinct years of the
\* observations in range: strictly ascending, as many entries as distinct
\* years, even when several observations share a year.
C15_YearsDistinctAscending ==
    PopDone /\ ~IsNone(pop_stats) =>
      /\ \A i, j \in 1..Len(pop_stats.years_included) :
           i < j => pop_stats.years_included[i] < pop_stats.years_included[j]
      /\ Len(pop_stats.years_included) = Cardinality(YearsInRange(pop_df))
      /\ { pop_stats.years_included[i] : i \in 1..Len(pop_stats.years_included) }
           = YearsInRange(pop_df)

\* the in-range populations of the frame, in row order
RECURSIVE InRangePopulations(_, _)
InRangePopulations(df, i) ==
    IF i > Len(df.rows) THEN << >>
    ELSE (IF i \in InRange(df) THEN << df.rows[i].Population.v >> ELSE << >>)
         \o InRangePopulations(df, i + 1)

\* the sample standard deviation lies within half a unit of r:
\* (2r - 1)^2 * n^2 (n - 1) <= 4 * sum of (n * x_i - sum(x))^2
\* < (2r + 1)^2 * n^2 (n - 1), in exact arithmetic
IsRoundedSampleStd(r, vals) ==
    LET n    == Len(vals)
        num4 == BigMul(Big(4), SumSqDev(vals))
        den  == Big(n * n * (n - 1))
    IN  /\ n >= 2
        /\ r >= 0
        /\ r = 0 \/ BigLeq(BigMul(BigSquare(2 * r - 1), den), num4)
        /\ ~BigLeq(BigMul(BigSquare(2 * r + 1), den), num4)

\* C16: whenever a PopulationSummary is returned, its std_deviation is a
\* number, the sample (N-1) standard deviation of the in-range populations
\* rounded to a whole unit, also for exactly one observation in range.
C16_StdDefinedForEveryNonEmptySet ==
    PopDone /\ ~IsNone(pop_stats) =>
      /\ ~pop_stats.std_deviation.null
      /\ Len(InRangePopulations(pop_df, 1)) >= 2 =>
           IsRoundedSampleStd(pop_stats.std_deviation.v, InRangePopulations(pop_df, 1))

-----------------------------------------------------------------------------
(* Claims about the loaders *)

PopLoaded == pc = "pop_stats"

\* the positions, in the listing, of the snapshots the Collector wrote
CollectorSnapshots(st) ==
    { i \in 1..Len(st.pop.objects) :
        \E d \in { "20240101", "20240102" } :
           st.pop.objects[i].key = collector_population_key(d, "080000") }

\* the last of them in key order, which is also the latest in time
LatestSnapshot(st) ==
    CHOOSE i \in CollectorSnapshots(st) : \A j \in CollectorSnapshots(st) : j <= i

\* C17: when the bucket holds one or more population snapshots written by
\* the Collector, load_population_data returns the records of the latest of
\* them, never those of an older object and never the built-in dataset.
C17_ReadsLatestCollectorSnapshot ==
    PopLoaded /\ store.pop.ok /\ CollectorSnapshots(store) # {} =>
      /\ pop_df = FrameOfRecords(store.pop.objects[LatestSnapshot(store)].body.records)
      /\ ~Logged("pop_sample_data")

BlsLoaded == pc = "load_pop"

\* C18: in one invocation of load_bls_data at most 10 series have their
\* object of today read, however many prefixes the bucket lists and however
\* many of the reads fail.
C18_ReadsWithinCap ==
    BlsLoaded => bls_reads <= 10

IsComplete(pt) ==
    pt.year.k # "absent" /\ pt.period.k # "absent" /\ pt.value.k # "absent"

\* the row a complete data point of a series is loaded as
RowOf(series_id, pt) ==
    [ series_id |-> series_id, year |-> pt.year.v, period |-> pt.period.v,
      value |-> pt.value.v ]

\* C19: a data point that lacks its year, period or value is dropped: every
\* row of the loaded collection is that of a complete data point of an
\* object, and the complete data points after an incomplete one in the same
\* object are loaded.
C19_IncompleteRecordsDropped ==
    BlsLoaded /\ ~Logged("bls_sample_data") =>
      /\ \A r \in 1..Len(bls_df) :
           \E i \in 1..Len(store.bls.prefixes) :
             \E k \in 1..Len(store.bls.prefixes[i].object.points) :
                /\ IsComplete(store.bls.prefixes[i].object.points[k])
                /\ bls_df[r] = RowOf(store.bls.prefixes[i].series_id,
                                     store.bls.prefixes[i].object.points[k])
      /\ Len(store.bls.prefixes) > 0 /\ store.bls.prefixes[1].object = HoleObject =>
           \E r \in 1..Len(bls_df) :
              bls_df[r] = RowOf(store.bls.prefixes[1].series_id, HolePoints[4])

-----------------------------------------------------------------------------
(* Claims about the collection cycle *)

\* the series of the cycle whose object of the day is in the bucket
SeriesWritten ==
    { i \in 1..Len(get_bls_series_list) :
        \E k \in 1..Len(bucket) :
           /\ bucket[k][1] = "bls-data/"
           /\ bucket[k][2] = get_bls_series_list[i] }

\* C20: within one collection cycle the population snapshot, whose creation
\* alone enqueues a trigger, is written only after every labor-statistics
\* series object of the cycle has been written: when a trigger is in the
\* queue, the bucket holds the object of every series of the cycle.
C20_TriggerAfterAllSeriesWritten ==
    /\ \A k \in 1..Len(queue) : queue[k][1] = "datausa-api/population/"
    /\ queue # << >> => SeriesWritten = 1..Len(get_bls_series_list)

-----------------------------------------------------------------------------
(* Claims about the logged summary *)

ResultsLogged == pc = "return"

\* the positions of the logged lines of one kind
LinesOfKind(kind) == { i \in 1..Len(log) : log[i].line = kind }

\* the lines of kind shown are the first preview entries of list, and a line
\* of kind more tells the number of the others exactly when there are others
PreviewFaithful(list, preview, shown, more) ==
    /\ Cardinality(LinesOfKind(shown)) = MinOf(Len(list), preview)
    /\ Cardinality(LinesOfKind(shown)) <= preview
    /\ \A j \in 1..MinOf(Len(list), preview) :
          \E i \in LinesOfKind(shown) : log[i].v = list[j]
    /\ IF Len(list) > preview
         THEN /\ Cardinality(LinesOfKind(more)) = 1
              /\ \A i \in LinesOfKind(more) : log[i].v = Len(list) - preview
         ELSE LinesOfKind(more) = {}

\* C21: log_analytics_results renders at most 5 best-year entries and at
\* most 3 combined-report rows, and a list longer than its preview count is
\* followed by a line stating exactly how many entries were left out
\* (length minus 5, length minus 3); without truncation there is no such
\* line.
C21_TruncationAlwaysStated ==
    ResultsLogged =>
        /\ PreviewFaithful(best_years, 5, "best_year", "more_series")
        /\ IF IsNone(combined_report)
             THEN LinesOfKind("record") = {} /\ LinesOfKind("more_records") = {}
             ELSE PreviewFaithful(combined_report.records, 3, "record", "more_records")

C21_Witness ==
    /\ ResultsLogged
    /\ Len(best_years) > 5
    /\ ~IsNone(combined_report)
    /\ Len(combined_report.records) > 3
    /\ \E i \in LinesOfKind("more_series") : log[i].v = Len(best_years) - 5
    /\ \E i \in LinesOfKind("more_records") : log[i].v = Len(combined_report.records) - 3

-----------------------------------------------------------------------------
(* Claims about the effects of an invocation on the store *)

\* C22: an Aggregator invocation leaves the store unchanged, and every
\* selected object is read with a single attempt: the get_object calls of
\* load_bls_data are never more than the series prefixes listed, failed
\* reads included, and load_population_data makes at most one.
C22_ReadOnlySingleAttempt ==
    /\ [][store' = store]_vars
    /\ [](store.bls.ok => bls_reads <= Len(store.bls.prefixes))
    /\ [](~store.bls.ok => bls_reads = 0)
    /\ [](pop_reads <= 1)

\* a run that returned after a failed read of a series object and a failed
\* read of the population object, each tried once
C22_Witness ==
    /\ Returned
    /\ store.bls.ok
    /\ \E i \in 1..Len(store.bls.prefixes) :
          store.bls.prefixes[i].object.kind \in { "missing", "garbled" }
    /\ bls_reads = Len(store.bls.prefixes)
    /\ \E i \in ListedJson(store.pop.objects) :
          store.pop.objects[i].body.kind \in { "unreadable", "garbled" }
    /\ pop_reads = 1

-----------------------------------------------------------------------------
(* Claims about the round trip from the Collector to the loader *)

\* the row load_bls_data is to build from a data point of a stored response
ObservationOf(sid, pt) ==
    [ series_id |-> sid, year |-> pt.year.v, period |-> pt.period.v,
      value |-> pt.value.v ]

\* C23: for every labor-statistics response the Collector stored for a
\* series under today's date, load_bls_data run on the same day returns a
\* collection with one observation (series_id, year, period, value) per data
\* point of the stored response, and does not substitute the fallback
\* dataset.
C23_RoundTrip ==
    (BlsLoaded /\ SeriesWritten # {}) =>
        /\ \A i \in SeriesWritten :
              \A k \in 1..Len(api.series[i].points) :
                 \E r \in 1..Len(bls_df) :
                    bls_df[r] = ObservationOf(get_bls_series_list[i],
                                              api.series[i].points[k])
        /\ ~Logged("bls_sample_data")

-----------------------------------------------------------------------------
(* Claims about what the Collector reports *)

CollectorReturned == pc = "collector_returned"

PopulationWritten ==
    \E k \in 1..Len(bucket) : bucket[k][1] = "datausa-api/population/"

\* C24: the Collector reports a series with status 'success', and counts
\* it in 'successful', only if the object of the series was written to the
\* store, and reports the population collection with success true only if
\* the population object was written.
C24_SuccessOnlyIfWritten ==
    /\ \A k \in 1..Len(bls_results) :
          bls_results[k].status = "success" => k \in SeriesWritten
    /\ CollectorReturned =>
          /\ result.bls_results.successful <= Cardinality(SeriesWritten)
          /\ result.population_results.success => PopulationWritten

-----------------------------------------------------------------------------
(* Claims about the errors of the Aggregator's lambda_handler *)

\* the SQS record cannot be used: its body is no JSON, or has no 'Records',
\* or its first S3 record has no event name
Unusable(m) ==
    \/ m.kind \in { "garbled", "no_records" }
    \/ m.kind = "records" /\ m.records # << >> /\ m.records[1].eventName = "absent"

\* C25: lambda_handler never raises: it answers every event with a
\* response, the failure response for an event it cannot iterate.  An SQS
\* record whose body cannot be parsed or lacks expected fields is skipped
\* and the records after it are processed, and the response reports as
\* 'triggers processed' exactly the number of run_analytics calls made.
C25_SkipsBadRecordsAndCounts ==
    HandlerReturned =>
        IF event_form = "mapping"
          THEN /\ result.statusCode = 200
               /\ rec_i = Len(event) + 1
               /\ \A i \in 1..Len(event) : \A j \in 1..Len(event[i].records) :
                     ( /\ Delivered(i, j)
                       /\ event[i].records[j].eventName = "s3:ObjectCreated:Put"
                       /\ IsTriggerKey(event[i].records[j].key) )
                     => CallsFor(i, j) = 1
               /\ result.triggers_processed = Len(analytics_calls)
               /\ result.analytics_results = Len(analytics_calls)
          ELSE /\ result.statusCode = 500
               /\ analytics_calls = << >>

\* an event whose first SQS record cannot be used and whose later record
\* was run, with the run counted in the response
C25_Witness ==
    /\ HandlerReturned
    /\ event_form = "mapping"
    /\ \E i, k \in 1..Len(event) :
          /\ i < k
          /\ Unusable(event[i])
          /\ event[i].kind = "garbled"
          /\ CallsFor(k, 1) = 1
    /\ result.triggers_processed >= 1
    /\ result.triggers_processed = Len(analytics_calls)

\* an event that is no mapping, answered with the failure response
C25_WitnessFailure ==
    /\ HandlerReturned
    /\ event_form = "no_mapping"
    /\ result.statusCode = 500

====
